---- MODULE Spec2Model ----
(***************************************************************************)
(* Delta-sync engine of scripts/sync_top_100.py: candidate selection,      *)
(* content hashing, batched detail fetching with retry, conditional        *)
(* upserts and drop marking, over the shared "athletes" table.             *)
(***************************************************************************)
EXTENDS Integers, Sequences, FiniteSets, TLC

(* ------------------------------------------------------------------ *)
(* Bounds of the model and program constants                          *)
(* ------------------------------------------------------------------ *)

\* program constants (scripts/sync_top_100.py)
MAX_RETRIES == 5
INITIAL_BACKOFF == 2
TOP_N == 100
force_refresh_days == 7

\* candidates fetched per batch; the script uses 25, scaled to the id universe
BATCH_SIZE == 2

\* clock resolution: ticks per day (a tick is half a day)
TicksPerDay == 2
\* days the clock may jump between two runs, and how often it may jump
JumpDays == 8
MaxJumps == 1
\* runs of sync_top_100 in one behaviour
MaxRuns == 2
\* writes of the other script (sync_athletes_from_rankings.py) in one behaviour
MaxOtherWrites == 1
\* database statements that raise in one behaviour
MaxFaults == 1

\* ids the source ranks: two men; its list of women stays empty
MenIds == {"m1", "m2", "m3"}
WomenIds == {}
Ids == MenIds \cup WomenIds

\* the athletes of the short ranked lists and of the harnesses
HarnessIds == {"m1", "m2"}
\* names a detail record of the source may carry: the record of m1 changes
\* between fetches, the record of the others does not
Names == {"n1", "n2"}
NamesOf(id) == IF id = "m1" THEN Names ELSE {"n1"}

\* SQL NULL for the nullable integer and timestamp columns
NULL == 0 - 1
\* Python None in a detail record
None == "<None>"

\* the (gender, gender_name) pairs of the loop of sync_top_100
Genders == << [gender |-> "M", gender_name |-> "men"],
              [gender |-> "F", gender_name |-> "women"] >>

(* ------------------------------------------------------------------ *)
(* Helpers                                                            *)
(* ------------------------------------------------------------------ *)

Max(a, b) == IF a >= b THEN a ELSE b
Min(a, b) == IF a <= b THEN a ELSE b

RECURSIVE Pow2(_)
Pow2(n) == IF n = 0 THEN 1 ELSE 2 * Pow2(n - 1)

Range(s) == { s[k] : k \in DOMAIN s }

\* the sequences that list every element of the finite set S exactly once
Orders(S) ==
  { s \in [1..Cardinality(S) -> S] : \A a \in S : \E k \in DOMAIN s : s[k] = a }

\* Python truthiness of a field value, and the value of "a or b"
Truthy(v) == v # None /\ v # ""
PyOr(a, b) == IF Truthy(a) THEN a ELSE b

\* s[i:j] of a Python list, for 0-based i and j
Slice(s, i, j) == SubSeq(s, i + 1, Min(j, Len(s)))

(* ------------------------------------------------------------------ *)
(* Canonicalizer / Hasher                                             *)
(* ------------------------------------------------------------------ *)

\* a detail record of the source with the given id and name, all other keys None
MkDetail(id, name) ==
  [ id |-> id, worldAthleticsId |-> None, name |-> name, gender |-> None,
    country |-> None, dob |-> None, dateOfBirth |-> None, personalBest |-> None,
    pb |-> None, seasonBest |-> None, headshotUrl |-> None, headshot |-> None,
    sponsor |-> None, age |-> None, points |-> None ]

\* a dict of the source as the list of its (key, value) pairs in insertion order
DictKeys(d) == { d[k][1] : k \in DOMAIN d }

\* d.get(key)
DictGet(d, key) ==
  IF key \in DictKeys(d)
    THEN d[CHOOSE k \in DOMAIN d : d[k][1] = key][2]
    ELSE None

\* the keys canonicalize_athlete reads
ProjectionKeys ==
  { "id", "worldAthleticsId", "name", "gender", "country", "dob", "dateOfBirth",
    "personalBest", "pb", "seasonBest", "headshotUrl", "headshot", "sponsor", "age" }

\* what the reads of a dict return, key by key
AsDetail(d) ==
  [ id |-> DictGet(d, "id"), worldAthleticsId |-> DictGet(d, "worldAthleticsId"),
    name |-> DictGet(d, "name"), gender |-> DictGet(d, "gender"),
    country |-> DictGet(d, "country"), dob |-> DictGet(d, "dob"),
    dateOfBirth |-> DictGet(d, "dateOfBirth"),
    personalBest |-> DictGet(d, "personalBest"), pb |-> DictGet(d, "pb"),
    seasonBest |-> DictGet(d, "seasonBest"),
    headshotUrl |-> DictGet(d, "headshotUrl"), headshot |-> DictGet(d, "headshot"),
    sponsor |-> DictGet(d, "sponsor"), age |-> DictGet(d, "age"),
    points |-> DictGet(d, "points") ]

\* canonicalize_athlete falling back to a key outside the projection
canonicalize_athlete_reads_points(athlete_data) ==
  [ id |-> PyOr(athlete_data.id, athlete_data.worldAthleticsId),
    name |-> athlete_data.name,
    gender |-> athlete_data.gender,
    country |-> athlete_data.country,
    dob |-> PyOr(athlete_data.dob, athlete_data.dateOfBirth),
    personalBest |-> PyOr(athlete_data.personalBest, athlete_data.pb),
    seasonBest |-> athlete_data.seasonBest,
    headshotUrl |-> PyOr(athlete_data.headshotUrl, athlete_data.headshot),
    sponsor |-> PyOr(athlete_data.sponsor, athlete_data.points),
    age |-> athlete_data.age ]

canonicalize_athlete(athlete_data) ==
  [ id |-> PyOr(athlete_data.id, athlete_data.worldAthleticsId),
    name |-> athlete_data.name,
    gender |-> athlete_data.gender,
    country |-> athlete_data.country,
    dob |-> PyOr(athlete_data.dob, athlete_data.dateOfBirth),
    personalBest |-> PyOr(athlete_data.personalBest, athlete_data.pb),
    seasonBest |-> athlete_data.seasonBest,
    headshotUrl |-> PyOr(athlete_data.headshotUrl, athlete_data.headshot),
    sponsor |-> athlete_data.sponsor,
    age |-> athlete_data.age ]

\* canonical_hash over a JSON text that leaves the name out
canonical_hash_no_name(obj) ==
  << "sha256", obj.age, obj.country, obj.dob, obj.gender, obj.headshotUrl,
     obj.id, obj.personalBest, obj.seasonBest, obj.sponsor >>

\* json.dumps(obj, sort_keys=True) lists the values in the order of the sorted
\* keys; SHA-256 is taken as injective on that text
canonical_hash(obj) ==
  << "sha256", obj.age, obj.country, obj.dob, obj.gender, obj.headshotUrl,
     obj.id, obj.name, obj.personalBest, obj.seasonBest, obj.sponsor >>

(* ------------------------------------------------------------------ *)
(* Retry with exponential backoff                                     *)
(* ------------------------------------------------------------------ *)

\* the for loop of retry_with_backoff from iteration "attempt" on; outs[k] is
\* the outcome of the k-th call of func: it raises, or returns a value
RECURSIVE retry_loop(_, _, _, _, _)
retry_loop(outs, max_retries, initial_backoff, attempt, slept) ==
  IF attempt >= max_retries
    THEN [raised |-> FALSE, value |-> None, exc |-> 0, calls |-> attempt,
          slept |-> slept]
    ELSE IF ~outs[attempt + 1].raises
      THEN [raised |-> FALSE, value |-> outs[attempt + 1].value, exc |-> 0,
            calls |-> attempt + 1, slept |-> slept]
      ELSE IF attempt = max_retries - 1
        THEN [raised |-> TRUE, value |-> None, exc |-> attempt + 1,
              calls |-> attempt + 1, slept |-> slept]
        ELSE retry_loop(outs, max_retries, initial_backoff, attempt + 1,
                        Append(slept, initial_backoff * Pow2(attempt)))

\* the loop running once more than max_retries
retry_with_backoff_one_more(outs, max_retries, initial_backoff) ==
  retry_loop(outs, max_retries + 1, initial_backoff, 0, << >>)

\* the backoff computed from the attempt counted from one
retry_with_backoff_from_one(outs, max_retries, initial_backoff) ==
  retry_loop(outs, max_retries, initial_backoff * 2, 0, << >>)

\* raised: an exception propagates, exc: the number of the call that raised it;
\* value: what func returned (None when the loop ends without a call);
\* calls: how often func was called; slept: the backoffs slept, in order
retry_with_backoff(outs, max_retries, initial_backoff) ==
  retry_loop(outs, max_retries, initial_backoff, 0, << >>)

(* ------------------------------------------------------------------ *)
(* Snapshot Loader and Candidate Selector                             *)
(* ------------------------------------------------------------------ *)

\* str(n.get('id') or n.get('worldAthleticsId'))
NodeId(n) == PyOr(n.id, n.worldAthleticsId)

MkNode(id, rank) == [id |-> id, worldAthleticsId |-> None, rank |-> rank]

load_db_snapshot(store, athlete_ids) ==
  [ wa_id \in (Range(athlete_ids) \cap DOMAIN store) |->
      [ data_hash |-> store[wa_id].data_hash,
        marathon_rank |-> store[wa_id].marathon_rank,
        last_fetched_at |-> store[wa_id].last_fetched_at,
        last_seen_at |-> store[wa_id].last_seen_at ] ]

\* (now - last_fetched).days
age_days(t, last_fetched) == (t - last_fetched) \div TicksPerDay

\* the loop body with the staleness check as an elif of the rank check
detect_node_elif(node, db_snapshot, refresh_days, t, acc) ==
  LET athlete_id == NodeId(node)
      rank == node.rank
  IN IF athlete_id \notin DOMAIN db_snapshot
       THEN [acc EXCEPT !.new_ids = @ \cup {athlete_id}]
       ELSE LET db_info == db_snapshot[athlete_id]
                last_fetched == db_info.last_fetched_at
            IN IF db_info.marathon_rank # rank
                 THEN [acc EXCEPT !.rank_changed_ids = @ \cup {athlete_id}]
                 ELSE IF last_fetched # NULL
                         /\ age_days(t, last_fetched) > refresh_days
                   THEN [acc EXCEPT !.stale_ids = @ \cup {athlete_id}]
                   ELSE acc

\* the loop body with "age_days >= force_refresh_days"
detect_node_ge(node, db_snapshot, refresh_days, t, acc) ==
  LET athlete_id == NodeId(node)
      rank == node.rank
  IN IF athlete_id \notin DOMAIN db_snapshot
       THEN [acc EXCEPT !.new_ids = @ \cup {athlete_id}]
       ELSE LET db_info == db_snapshot[athlete_id]
                a1 == IF db_info.marathon_rank # rank
                        THEN [acc EXCEPT !.rank_changed_ids = @ \cup {athlete_id}]
                        ELSE acc
                last_fetched == db_info.last_fetched_at
            IN IF last_fetched # NULL
                    /\ age_days(t, last_fetched) >= refresh_days
                 THEN [a1 EXCEPT !.stale_ids = @ \cup {athlete_id}]
                 ELSE a1

\* the body of the loop of detect_candidates for one node, on the three sets
detect_node(node, db_snapshot, refresh_days, t, acc) ==
  LET athlete_id == NodeId(node)
      rank == node.rank
  IN IF athlete_id \notin DOMAIN db_snapshot
       THEN [acc EXCEPT !.new_ids = @ \cup {athlete_id}]
       ELSE LET db_info == db_snapshot[athlete_id]
                a1 == IF db_info.marathon_rank # rank
                        THEN [acc EXCEPT !.rank_changed_ids = @ \cup {athlete_id}]
                        ELSE acc
                last_fetched == db_info.last_fetched_at
            IN IF last_fetched # NULL
                    /\ age_days(t, last_fetched) > refresh_days
                 THEN [a1 EXCEPT !.stale_ids = @ \cup {athlete_id}]
                 ELSE a1

RECURSIVE detect_loop(_, _, _, _, _)
detect_loop(nodes, db_snapshot, refresh_days, t, acc) ==
  IF nodes = << >> THEN acc
  ELSE detect_loop(Tail(nodes), db_snapshot, refresh_days, t,
                   detect_node(Head(nodes), db_snapshot, refresh_days, t, acc))

detect_candidates(ranking_nodes, db_snapshot, refresh_days, t) ==
  detect_loop(ranking_nodes, db_snapshot, refresh_days, t,
              [new_ids |-> {}, rank_changed_ids |-> {}, stale_ids |-> {}])

(* ------------------------------------------------------------------ *)
(* Conditional Upserter and Drop Marker (statements on the table)     *)
(* ------------------------------------------------------------------ *)

\* the row the INSERT ... VALUES of upsert_athlete proposes (EXCLUDED)
Excluded(athlete_data, rank, gender, data_hash, t) ==
  [ name |-> athlete_data.name,
    gender |-> gender,
    marathon_rank |-> rank,
    data_hash |-> data_hash,
    ranking_source |-> "world_marathon",
    last_fetched_at |-> t,
    last_seen_at |-> t ]

\* the WHERE clause without its comparison of the ranks
UpsertWhere_hash_only(row, excluded) ==
  row.data_hash # excluded.data_hash

\* the WHERE clause left out: every conflict updates
UpsertWhere_always(row, excluded) == TRUE

\* WHERE clause of ON CONFLICT DO UPDATE
UpsertWhere(row, excluded) ==
  \/ row.data_hash # excluded.data_hash
  \/ row.marathon_rank # excluded.marathon_rank

\* upsert_athlete whose DO UPDATE SET leaves marathon_rank out
upsert_athlete_keeps_rank(store, athlete_data, rank, gender, data_hash, dry_run, t) ==
  LET wa_id == PyOr(athlete_data.id, athlete_data.worldAthleticsId)
      excluded == Excluded(athlete_data, rank, gender, data_hash, t)
  IN IF dry_run
       THEN [store |-> store, ret |-> TRUE]
       ELSE IF wa_id \notin DOMAIN store
         THEN [store |-> [w \in DOMAIN store \cup {wa_id} |->
                            IF w = wa_id THEN excluded ELSE store[w]],
               ret |-> TRUE]
         ELSE IF UpsertWhere(store[wa_id], excluded)
           THEN [store |-> [store EXCEPT ![wa_id] =
                              [excluded EXCEPT !.marathon_rank =
                                                 store[wa_id].marathon_rank]],
                 ret |-> TRUE]
           ELSE [store |-> store, ret |-> FALSE]

\* upsert_athlete whose statement sets last_fetched_at on every conflict
upsert_athlete_refreshes(store, athlete_data, rank, gender, data_hash, dry_run, t) ==
  LET wa_id == PyOr(athlete_data.id, athlete_data.worldAthleticsId)
      excluded == Excluded(athlete_data, rank, gender, data_hash, t)
  IN IF dry_run
       THEN [store |-> store, ret |-> TRUE]
       ELSE IF wa_id \notin DOMAIN store
         THEN [store |-> [w \in DOMAIN store \cup {wa_id} |->
                            IF w = wa_id THEN excluded ELSE store[w]],
               ret |-> TRUE]
         ELSE IF UpsertWhere(store[wa_id], excluded)
           THEN [store |-> [store EXCEPT ![wa_id] = excluded], ret |-> TRUE]
           ELSE [store |-> [store EXCEPT ![wa_id].last_fetched_at = t], ret |-> FALSE]

\* store and return value of upsert_athlete; t is NOW()
upsert_athlete(store, athlete_data, rank, gender, data_hash, dry_run, t) ==
  LET wa_id == PyOr(athlete_data.id, athlete_data.worldAthleticsId)
      excluded == Excluded(athlete_data, rank, gender, data_hash, t)
  IN IF dry_run
       THEN [store |-> store, ret |-> TRUE]
       ELSE IF wa_id \notin DOMAIN store
         THEN [store |-> [w \in DOMAIN store \cup {wa_id} |->
                            IF w = wa_id THEN excluded ELSE store[w]],
               ret |-> TRUE]
         ELSE IF UpsertWhere(store[wa_id], excluded)
           THEN [store |-> [store EXCEPT ![wa_id] = excluded], ret |-> TRUE]
           ELSE [store |-> store, ret |-> FALSE]

\* the WHERE clause without "world_athletics_id != ALL(...)"
DropWhere_no_list(wa_id, row, current_top_100_ids, gender) ==
  /\ row.gender = gender
  /\ row.ranking_source = "world_marathon"
  /\ row.last_seen_at # NULL
  /\ row.marathon_rank # NULL
  /\ row.marathon_rank <= 100

\* the WHERE clause without "gender = ..."
DropWhere_no_gender(wa_id, row, current_top_100_ids, gender) ==
  /\ row.ranking_source = "world_marathon"
  /\ wa_id \notin Range(current_top_100_ids)
  /\ row.last_seen_at # NULL
  /\ row.marathon_rank # NULL
  /\ row.marathon_rank <= 100

\* the WHERE clause without "last_seen_at IS NOT NULL"
DropWhere_no_seen(wa_id, row, current_top_100_ids, gender) ==
  /\ row.gender = gender
  /\ row.ranking_source = "world_marathon"
  /\ wa_id \notin Range(current_top_100_ids)
  /\ row.marathon_rank # NULL
  /\ row.marathon_rank <= 100

\* WHERE clause of both statements of mark_dropped_athletes
DropWhere(wa_id, row, current_top_100_ids, gender) ==
  /\ row.gender = gender
  /\ row.ranking_source = "world_marathon"
  /\ wa_id \notin Range(current_top_100_ids)
  /\ row.last_seen_at # NULL
  /\ row.marathon_rank # NULL
  /\ row.marathon_rank <= 100

\* mark_dropped_athletes deleting the rows it finds
mark_dropped_athletes_delete(store, current_top_100_ids, gender, dry_run) ==
  LET hit == { w \in DOMAIN store :
                 DropWhere(w, store[w], current_top_100_ids, gender) }
  IN IF dry_run
       THEN [store |-> store, count |-> Cardinality(hit)]
       ELSE [store |-> [w \in DOMAIN store \ hit |-> store[w]],
             count |-> Cardinality(hit)]

\* mark_dropped_athletes running its UPDATE in a dry run too
mark_dropped_athletes_ignores_dry_run(store, current_top_100_ids, gender, dry_run) ==
  LET hit == { w \in DOMAIN store :
                 DropWhere(w, store[w], current_top_100_ids, gender) }
  IN [store |-> [w \in DOMAIN store |->
                   IF w \in hit
                     THEN [store[w] EXCEPT !.last_seen_at = NULL]
                     ELSE store[w]],
      count |-> Cardinality(hit)]

\* mark_dropped_athletes clearing marathon_rank with last_seen_at
mark_dropped_athletes_clears_rank(store, current_top_100_ids, gender, dry_run) ==
  LET hit == { w \in DOMAIN store :
                 DropWhere(w, store[w], current_top_100_ids, gender) }
  IN IF dry_run
       THEN [store |-> store, count |-> Cardinality(hit)]
       ELSE [store |-> [w \in DOMAIN store |->
                          IF w \in hit
                            THEN [store[w] EXCEPT !.last_seen_at = NULL,
                                                  !.marathon_rank = NULL]
                            ELSE store[w]],
             count |-> Cardinality(hit)]

\* mark_dropped_athletes that leaves the table alone when the list is empty
mark_dropped_athletes_skips_empty(store, current_top_100_ids, gender, dry_run) ==
  LET hit == { w \in DOMAIN store :
                 /\ current_top_100_ids # << >>
                 /\ DropWhere(w, store[w], current_top_100_ids, gender) }
  IN IF dry_run
       THEN [store |-> store, count |-> Cardinality(hit)]
       ELSE [store |-> [w \in DOMAIN store |->
                          IF w \in hit
                            THEN [store[w] EXCEPT !.last_seen_at = NULL]
                            ELSE store[w]],
             count |-> Cardinality(hit)]

\* store and return value of mark_dropped_athletes
mark_dropped_athletes(store, current_top_100_ids, gender, dry_run) ==
  LET hit == { w \in DOMAIN store :
                 DropWhere(w, store[w], current_top_100_ids, gender) }
  IN IF dry_run
       THEN [store |-> store, count |-> Cardinality(hit)]
       ELSE [store |-> [w \in DOMAIN store |->
                          IF w \in hit
                            THEN [store[w] EXCEPT !.last_seen_at = NULL]
                            ELSE store[w]],
             count |-> Cardinality(hit)]

\* compute_hash of sync_athletes_from_rankings.py, on the athlete dict of that
\* script (json.dumps with the keys sorted; SHA-256 taken as injective)
compute_hash(athlete) ==
  << "sha256", athlete.age, athlete.country, athlete.date_of_birth, athlete.dob,
     athlete.gender, athlete.marathon_rank, athlete.name, athlete.overall_rank,
     athlete.personal_best, athlete.road_running_rank, athlete.season_best >>

\* an athlete dict of that script with the given fields, all other keys None
MkRanked(wa_id, name, gender, rank) ==
  [ world_athletics_id |-> wa_id, name |-> name, country |-> None,
    gender |-> gender, personal_best |-> None, season_best |-> None,
    marathon_rank |-> rank, road_running_rank |-> None, overall_rank |-> None,
    age |-> None, dob |-> None, date_of_birth |-> None ]

\* the statements of upsert_athlete of sync_athletes_from_rankings.py: an
\* UPDATE of the row when it exists, an INSERT otherwise (last_seen_at is not
\* among the columns either statement names)
rankings_upsert(store, wa_id, name, gender, rank, data_hash, t) ==
  IF wa_id \in DOMAIN store
    THEN [store EXCEPT ![wa_id] =
            [@ EXCEPT !.name = name, !.gender = gender, !.marathon_rank = rank,
                      !.data_hash = data_hash, !.last_fetched_at = t,
                      !.ranking_source = "world_rankings"]]
    ELSE [w \in DOMAIN store \cup {wa_id} |->
            IF w = wa_id
              THEN [ name |-> name, gender |-> gender, marathon_rank |-> rank,
                     data_hash |-> data_hash, ranking_source |-> "world_rankings",
                     last_fetched_at |-> t, last_seen_at |-> NULL ]
              ELSE store[w]]

(* ------------------------------------------------------------------ *)
(* Detail Fetcher                                                     *)
(* ------------------------------------------------------------------ *)

\* outcomes of the calls of a source function that raises k times and returns v
\* from then on
FailThen(k, v) ==
  [j \in 1..(MAX_RETRIES + 1) |-> [raises |-> j <= k, value |-> v]]

\* how often a source call fails before it succeeds: on all attempts but the
\* last, or on every attempt
FailCounts == {MAX_RETRIES - 1, MAX_RETRIES}

\* fetch_athlete_details giving up at the first id whose fetch raises
RECURSIVE fetch_athlete_details_abort(_, _)
fetch_athlete_details_abort(wa, athlete_ids) ==
  IF athlete_ids = << >> THEN << >>
  ELSE LET athlete_id == Head(athlete_ids)
           r == retry_with_backoff(wa[athlete_id], MAX_RETRIES, INITIAL_BACKOFF)
       IN IF r.raised
            THEN << >>
            ELSE << [id |-> athlete_id, data |-> r.value] >>
                   \o fetch_athlete_details_abort(wa, Tail(athlete_ids))

\* the loop of fetch_athlete_details: wa[id] lists the outcomes of the calls of
\* wa_client.get_athlete(id); the result lists (id, details) in insertion order
RECURSIVE fetch_athlete_details(_, _)
fetch_athlete_details(wa, athlete_ids) ==
  IF athlete_ids = << >> THEN << >>
  ELSE LET athlete_id == Head(athlete_ids)
           r == retry_with_backoff(wa[athlete_id], MAX_RETRIES, INITIAL_BACKOFF)
           rest == fetch_athlete_details(wa, Tail(athlete_ids))
       IN IF r.raised
            THEN rest
            ELSE << [id |-> athlete_id, data |-> r.value] >> \o rest

\* one of the first n calls listed in outs returns
SucceedsWithin(outs, n) == \E j \in 1..n : ~outs[j].raises

\* the ids of athlete_ids for which the source fails on each of the
\* MAX_RETRIES calls made for them
Exhausted(wa, athlete_ids) ==
  { a \in Range(athlete_ids) : ~SucceedsWithin(wa[a], MAX_RETRIES) }

(* ------------------------------------------------------------------ *)
(* Incident Reporter                                                  *)
(* ------------------------------------------------------------------ *)

\* the environment of an invocation: the two variables of the reporter, and
\* whether requests.post or raise_for_status raises
Environments ==
  { [GITHUB_TOKEN |-> None, GITHUB_REPO |-> "owner/repo", post_raises |-> FALSE],
    [GITHUB_TOKEN |-> "token", GITHUB_REPO |-> "owner/repo", post_raises |-> TRUE],
    [GITHUB_TOKEN |-> "token", GITHUB_REPO |-> "owner/repo", post_raises |-> FALSE] }

\* create_github_issue without its try statement
create_github_issue_no_try(env) ==
  IF ~Truthy(env.GITHUB_TOKEN) \/ ~Truthy(env.GITHUB_REPO)
    THEN [raised |-> FALSE, posted |-> FALSE, created |-> FALSE]
    ELSE [raised |-> env.post_raises, posted |-> TRUE, created |-> ~env.post_raises]

\* raised: an exception leaves create_github_issue; posted: the request was
\* sent; created: the endpoint accepted it
create_github_issue(env) ==
  IF ~Truthy(env.GITHUB_TOKEN) \/ ~Truthy(env.GITHUB_REPO)
    THEN [raised |-> FALSE, posted |-> FALSE, created |-> FALSE]
    ELSE IF env.post_raises
      THEN [raised |-> FALSE, posted |-> TRUE, created |-> FALSE]
      ELSE [raised |-> FALSE, posted |-> TRUE, created |-> TRUE]

(* ------------------------------------------------------------------ *)
(* State                                                              *)
(* ------------------------------------------------------------------ *)

VARIABLES
  db,              \* committed rows of the athletes table, by world_athletics_id
  tx,              \* the table as the connection of the run sees it
  tx_aborted,      \* the connection's transaction is in the failed state
  now,             \* the clock, in ticks
  jumps,           \* how often the clock has jumped
  runs,            \* runs of sync_top_100 started
  other_writes,    \* writes and invocations of sync_athletes_from_rankings.py so far
  faults,          \* database statements that have raised so far
  pc,              \* position of the run
  dry_run,
  gi,              \* index of the category in Genders
  ranking_nodes,
  db_snapshot,
  cand,            \* new_ids, rank_changed_ids, stale_ids
  candidates_list,
  i,               \* offset of the current batch in candidates_list
  athlete_details, \* details of the batch not yet processed
  was_updated,
  stats,
  exit_code,       \* of the last finished invocation (NULL before)
  issues,          \* calls of create_github_issue
  fetched,         \* ids whose detail fetch was issued in this category run
  exhausted,       \* ids whose source calls all failed, in this run
  upserted,        \* ids for which upsert_athlete was called, this category run
  summaries,       \* what the invocation has written to sync_stats.json
  last_op,         \* the step taken last, with its arguments
  pre_tx,          \* tx before the step taken last
  prev_op,         \* the statement before last_op (statement harness)
  stmts,           \* statements applied so far (statement harness)
  call,            \* the function applied last, with arguments and result
  sync_fields      \* the athletes table has the sync tracking columns

vars == << db, tx, tx_aborted, now, jumps, runs, other_writes, faults, pc, dry_run, gi,
           ranking_nodes, db_snapshot, cand, candidates_list, i,
           athlete_details, was_updated, stats, exit_code, issues, fetched,
           exhausted, upserted, summaries, last_op, pre_tx, prev_op, stmts, call,
           sync_fields >>

runVars == << pc, dry_run, gi, ranking_nodes, db_snapshot, cand,
              candidates_list, i, athlete_details, was_updated, stats,
              exit_code, issues, fetched, exhausted, upserted, summaries >>

harnessVars == << prev_op, stmts, call, sync_fields >>

EmptyStore == [w \in {} |-> 0]

NoCand == [new_ids |-> {}, rank_changed_ids |-> {}, stale_ids |-> {}]

\* SyncStats.__init__
SyncStats ==
  [ candidates_found |-> 0, new_athletes |-> 0, updated_athletes |-> 0,
    unchanged_athletes |-> 0, dropped_athletes |-> 0, fetch_errors |-> 0,
    db_errors |-> 0 ]

\* SyncStats.summary, without the times
summary(st) ==
  [ candidates_found |-> st.candidates_found, new_athletes |-> st.new_athletes,
    updated_athletes |-> st.updated_athletes,
    unchanged_athletes |-> st.unchanged_athletes,
    dropped_athletes |-> st.dropped_athletes, fetch_errors |-> st.fetch_errors,
    db_errors |-> st.db_errors,
    success |-> (st.fetch_errors = 0 /\ st.db_errors = 0) ]

NoOp == [op |-> "none"]

InitRun ==
  /\ db = EmptyStore
  /\ tx = EmptyStore
  /\ tx_aborted = FALSE
  /\ now = 0
  /\ jumps = 0
  /\ runs = 0
  /\ other_writes = 0
  /\ faults = 0
  /\ pc = "idle"
  /\ dry_run = FALSE
  /\ gi = 1
  /\ ranking_nodes = << >>
  /\ db_snapshot = EmptyStore
  /\ cand = NoCand
  /\ candidates_list = << >>
  /\ i = 0
  /\ athlete_details = << >>
  /\ was_updated = FALSE
  /\ stats = SyncStats
  /\ exit_code = NULL
  /\ issues = 0
  /\ fetched = {}
  /\ exhausted = {}
  /\ upserted = {}
  /\ summaries = << >>
  /\ last_op = NoOp
  /\ pre_tx = EmptyStore
  /\ prev_op = NoOp
  /\ stmts = 0

Init ==
  /\ InitRun
  /\ call = NoOp
  /\ sync_fields = TRUE

(* ------------------------------------------------------------------ *)
(* The ranking source                                                 *)
(* ------------------------------------------------------------------ *)

GenderIds(gender) == IF gender = "M" THEN MenIds ELSE WomenIds

\* the ranked lists the source may return for a category: distinct ids of the
\* category, the k-th of them at rank k. Rankings: lists of athletes of
\* HarnessIds in any order; LongRankings: the list of all athletes of the
\* category, which takes more than one batch
Rankings(gender) ==
  { [k \in DOMAIN o |-> MkNode(o[k], k)] :
      o \in UNION { Orders(S) : S \in SUBSET (GenderIds(gender) \cap HarnessIds) } }

LongRankings(gender) ==
  IF gender = "M"
    THEN { [k \in 1..3 |-> MkNode(<< "m1", "m2", "m3" >>[k], k)] }
    ELSE { << >> }

\* athlete_ids and rank_map of sync_top_100
AthleteIds(nodes) == [k \in DOMAIN nodes |-> NodeId(nodes[k])]
RankMapGet(nodes, athlete_id) ==
  IF \E k \in DOMAIN nodes : NodeId(nodes[k]) = athlete_id
    THEN nodes[CHOOSE k \in DOMAIN nodes :
                 /\ NodeId(nodes[k]) = athlete_id
                 /\ \A j \in DOMAIN nodes : NodeId(nodes[j]) = athlete_id => j <= k].rank
    ELSE NULL

GenderName == Genders[gi].gender_name
Gender == Genders[gi].gender

AllCandidates(c) == c.new_ids \cup c.rank_changed_ids \cup c.stale_ids

(* ------------------------------------------------------------------ *)
(* sync_top_100, step by step                                         *)
(* ------------------------------------------------------------------ *)

\* main() calls sync_top_100: stats are created, the connection is opened
StartRun(d) ==
  /\ pc = "idle"
  /\ runs < MaxRuns
  /\ runs' = runs + 1
  /\ dry_run' = d
  /\ stats' = SyncStats
  /\ tx' = db
  /\ tx_aborted' = FALSE
  /\ gi' = 1
  /\ pc' = "fetch_ranking"
  /\ ranking_nodes' = << >>
  /\ db_snapshot' = EmptyStore
  /\ cand' = NoCand
  /\ candidates_list' = << >>
  /\ i' = 0
  /\ athlete_details' = << >>
  /\ was_updated' = FALSE
  /\ exit_code' = NULL
  /\ fetched' = {}
  /\ exhausted' = {}
  /\ upserted' = {}
  /\ summaries' = << >>
  /\ last_op' = [op |-> "start"]
  /\ pre_tx' = db
  /\ UNCHANGED << db, now, jumps, other_writes, faults, issues, harnessVars >>

\* fetch_ranking_list swallowing the exception of the last retry and
\* returning an empty list
FetchRanking_swallow(k, nodes) ==
  /\ pc = "fetch_ranking"
  /\ LET r == retry_with_backoff(FailThen(k, nodes), MAX_RETRIES, INITIAL_BACKOFF)
     IN /\ ranking_nodes' = IF r.raised THEN << >> ELSE r.value
        /\ last_op' = [op |-> "fetch_ranking", failures |-> IF r.raised THEN r.calls ELSE r.calls - 1]
  /\ pc' = "detect"
  /\ fetched' = {}
  /\ upserted' = {}
  /\ pre_tx' = tx
  /\ UNCHANGED << db, tx, tx_aborted, now, jumps, runs, other_writes, faults, dry_run, gi,
                  db_snapshot, cand, candidates_list, i, athlete_details,
                  was_updated, stats, exit_code, issues, exhausted,
                  summaries, harnessVars >>

\* Step 1: fetch_ranking_list returns the list of the category, after k failed
\* calls of the source
FetchRanking(k, nodes) ==
  /\ pc = "fetch_ranking"
  /\ LET r == retry_with_backoff(FailThen(k, nodes), MAX_RETRIES, INITIAL_BACKOFF)
     IN /\ ~r.raised
        /\ ranking_nodes' = r.value
        /\ last_op' = [op |-> "fetch_ranking", failures |-> IF r.raised THEN r.calls ELSE r.calls - 1]
  /\ pc' = "detect"
  /\ fetched' = {}
  /\ upserted' = {}
  /\ pre_tx' = tx
  /\ UNCHANGED << db, tx, tx_aborted, now, jumps, runs, other_writes, faults, dry_run, gi,
                  db_snapshot, cand, candidates_list, i, athlete_details,
                  was_updated, stats, exit_code, issues, exhausted,
                  summaries, harnessVars >>

\* the except clause without the call of create_github_issue
Abort_no_report(cause, env) ==
  /\ tx' = db
  /\ tx_aborted' = FALSE
  /\ issues' = issues
  /\ exit_code' = 1
  /\ pc' = "idle"
  /\ last_op' = [op |-> "abort", cause |-> cause, issue |-> create_github_issue(env),
                 propagated |-> cause]
  /\ pre_tx' = tx

\* the except clause of sync_top_100: roll back, report the incident, re-raise;
\* main() catches the exception and exits with code 1 without writing the summary
Abort(cause, env) ==
  LET r == create_github_issue(env)
  IN /\ tx' = db
     /\ tx_aborted' = FALSE
     /\ issues' = issues + 1
     /\ exit_code' = 1
     /\ pc' = "idle"
     /\ last_op' = [op |-> "abort", cause |-> cause, issue |-> r,
                    propagated |-> IF r.raised THEN "create_github_issue" ELSE cause]
     /\ pre_tx' = tx

\* Step 1 raises after the last retry
FetchRankingFails(k, env) ==
  /\ pc = "fetch_ranking"
  /\ retry_with_backoff(FailThen(k, << >>), MAX_RETRIES, INITIAL_BACKOFF).raised
  /\ Abort("fetch_ranking_list", env)
  /\ UNCHANGED << db, now, jumps, runs, other_writes, faults, dry_run, gi, ranking_nodes,
                  db_snapshot, cand, candidates_list, i, athlete_details,
                  was_updated, stats, fetched, exhausted, upserted, summaries,
                  harnessVars >>

\* Steps 2 and 3: load the snapshot, detect the candidates, list them
Detect(order) ==
  /\ pc = "detect"
  /\ LET snap == load_db_snapshot(tx, AthleteIds(ranking_nodes))
         c == detect_candidates(ranking_nodes, snap, force_refresh_days, now)
         all_candidates == AllCandidates(c)
     IN /\ db_snapshot' = snap
        /\ cand' = c
        /\ stats' = [stats EXCEPT !.candidates_found = @ + Cardinality(all_candidates)]
        /\ order \in Orders(all_candidates)
        /\ candidates_list' = order
        /\ pc' = IF all_candidates # {} THEN "fetch_batch" ELSE "drop"
  /\ i' = 0
  /\ last_op' = [op |-> "detect"]
  /\ pre_tx' = tx
  /\ UNCHANGED << db, tx, tx_aborted, now, jumps, runs, other_writes, faults, dry_run, gi,
                  ranking_nodes, athlete_details, was_updated, exit_code, issues,
                  fetched, exhausted, upserted, summaries, harnessVars >>

\* a batch drawn from the whole ranked list instead of the candidates
Batch_whole_list == AthleteIds(ranking_nodes)

\* a batch that starts one id early: candidates_list[i-1:i+BATCH_SIZE]
Batch_overlapping == Slice(candidates_list, Max(i - 1, 0), i + BATCH_SIZE)

\* batch = candidates_list[i:i+BATCH_SIZE]
Batch == Slice(candidates_list, i, i + BATCH_SIZE)

\* what the source may do on the calls for the ids of the current batch
BatchSources ==
  { [a \in Range(Batch) |-> FailThen(ks[a], MkDetail(a, ns[a]))] :
      ks \in [Range(Batch) -> FailCounts],
      ns \in { f \in [Range(Batch) -> Names] :
                 \A a \in Range(Batch) : f[a] \in NamesOf(a) } }

\* Step 4: fetch_athlete_details of the current batch
FetchBatch(wa) ==
  /\ pc = "fetch_batch"
  /\ athlete_details' = fetch_athlete_details(wa, Batch)
  /\ fetched' = fetched \cup Range(Batch)
  /\ exhausted' = exhausted \cup Exhausted(wa, Batch)
  /\ pc' = "process"
  /\ last_op' = [op |-> "fetch_batch", batch |-> Batch,
                 failed |-> Exhausted(wa, Batch)]
  /\ pre_tx' = tx
  /\ UNCHANGED << db, tx, tx_aborted, now, jumps, runs, other_writes, faults, dry_run, gi,
                  ranking_nodes, db_snapshot, cand, candidates_list, i,
                  was_updated, stats, exit_code, issues, upserted, summaries, harnessVars >>

\* Step 5 for one athlete of the batch: hash, upsert, count
ProcessAthlete ==
  /\ pc = "process"
  /\ athlete_details # << >>
  /\ dry_run \/ ~tx_aborted
  /\ LET athlete_id == Head(athlete_details).id
         athlete_data == Head(athlete_details).data
         canonical == canonicalize_athlete(athlete_data)
         data_hash == canonical_hash(canonical)
         rank == RankMapGet(ranking_nodes, athlete_id)
         r == upsert_athlete(tx, athlete_data, rank, GenderName, data_hash,
                             dry_run, now)
     IN /\ tx' = r.store
        /\ db' = IF dry_run THEN r.store ELSE db
        /\ was_updated' = r.ret
        /\ stats' = IF r.ret
                      THEN IF athlete_id \in cand.new_ids
                             THEN [stats EXCEPT !.new_athletes = @ + 1]
                             ELSE [stats EXCEPT !.updated_athletes = @ + 1]
                      ELSE [stats EXCEPT !.unchanged_athletes = @ + 1]
        /\ upserted' = upserted \cup {athlete_id}
        /\ last_op' = [op |-> "upsert", id |-> athlete_id, rank |-> rank,
                       data_hash |-> data_hash, data |-> athlete_data,
                       ret |-> r.ret]
  /\ athlete_details' = Tail(athlete_details)
  /\ pre_tx' = tx
  /\ UNCHANGED << tx_aborted, now, jumps, runs, other_writes, faults, pc, dry_run, gi,
                  ranking_nodes, db_snapshot, cand, candidates_list, i,
                  exit_code, issues, fetched, exhausted, summaries, harnessVars >>

\* Step 5 for one athlete raises and the handler of the athlete counts a db
\* error. db_error: cur.execute raised, which leaves the transaction in the
\* failed state, where every later statement raises as well (cascaded);
\* otherwise the exception came before the statement (a malformed record) and
\* the transaction is as it was
ProcessAthleteRaises(db_error) ==
  /\ pc = "process"
  /\ athlete_details # << >>
  /\ db_error => ~dry_run
  /\ IF db_error /\ tx_aborted
       THEN faults' = faults
       ELSE /\ faults < MaxFaults
            /\ faults' = faults + 1
  /\ tx_aborted' = (tx_aborted \/ db_error)
  /\ stats' = [stats EXCEPT !.db_errors = @ + 1]
  /\ upserted' = upserted \cup {Head(athlete_details).id}
  /\ athlete_details' = Tail(athlete_details)
  /\ last_op' = [op |-> "upsert_raised", id |-> Head(athlete_details).id,
                 cascaded |-> (db_error /\ tx_aborted)]
  /\ pre_tx' = tx
  /\ UNCHANGED << db, tx, now, jumps, runs, other_writes, pc, dry_run, gi,
                  ranking_nodes, db_snapshot, cand, candidates_list, i,
                  was_updated, exit_code, issues, fetched, exhausted,
                  summaries, harnessVars >>

\* the loop over the batches left after the first batch
NextBatchPc_first_only == "drop"

NextBatchPc == IF i + BATCH_SIZE < Len(candidates_list) THEN "fetch_batch" ELSE "drop"

\* end of a batch without conn.commit(): the transaction stays open
CommitBatch_deferred ==
  /\ pc = "process"
  /\ athlete_details = << >>
  /\ UNCHANGED << db, tx >>
  /\ tx_aborted' = tx_aborted
  /\ i' = i + BATCH_SIZE
  /\ pc' = NextBatchPc
  /\ last_op' = [op |-> "commit"]
  /\ pre_tx' = tx
  /\ UNCHANGED << now, jumps, runs, other_writes, faults, dry_run, gi, ranking_nodes,
                  db_snapshot, cand, candidates_list, athlete_details,
                  was_updated, stats, exit_code, issues, fetched, exhausted,
                  upserted, summaries, harnessVars >>

\* end of a batch: the cursor is closed and the batch committed (COMMIT of a
\* failed transaction rolls it back)
CommitBatch ==
  /\ pc = "process"
  /\ athlete_details = << >>
  /\ IF dry_run
       THEN UNCHANGED << db, tx >>
       ELSE IF tx_aborted
         THEN /\ tx' = db
              /\ UNCHANGED db
         ELSE /\ db' = tx
              /\ UNCHANGED tx
  /\ tx_aborted' = FALSE
  /\ i' = i + BATCH_SIZE
  /\ pc' = NextBatchPc
  /\ last_op' = [op |-> "commit"]
  /\ pre_tx' = tx
  /\ UNCHANGED << now, jumps, runs, other_writes, faults, dry_run, gi, ranking_nodes,
                  db_snapshot, cand, candidates_list, athlete_details,
                  was_updated, stats, exit_code, issues, fetched, exhausted,
                  upserted, summaries, harnessVars >>

\* end of a batch when conn.commit() raises: the handler of the batch counts a
\* fetch error and rolls back
CommitBatchRaises ==
  /\ pc = "process"
  /\ athlete_details = << >>
  /\ ~dry_run
  /\ faults < MaxFaults
  /\ faults' = faults + 1
  /\ stats' = [stats EXCEPT !.fetch_errors = @ + 1]
  /\ tx' = db
  /\ tx_aborted' = FALSE
  /\ i' = i + BATCH_SIZE
  /\ pc' = NextBatchPc
  /\ last_op' = [op |-> "commit_raised"]
  /\ pre_tx' = tx
  /\ UNCHANGED << db, now, jumps, runs, other_writes, dry_run, gi, ranking_nodes,
                  db_snapshot, cand, candidates_list, athlete_details,
                  was_updated, exit_code, issues, fetched, exhausted, upserted,
                  summaries, harnessVars >>

\* Step 6: mark the dropped athletes of the category, commit, next category
MarkDropped ==
  /\ pc = "drop"
  /\ LET r == mark_dropped_athletes(tx, AthleteIds(ranking_nodes), GenderName,
                                    dry_run)
     IN /\ tx' = r.store
        /\ db' = r.store
        /\ stats' = [stats EXCEPT !.dropped_athletes = @ + r.count]
        /\ last_op' = [op |-> "drop", count |-> r.count, gender |-> GenderName,
                       ids |-> Range(AthleteIds(ranking_nodes)),
                       dropped_before |-> stats.dropped_athletes]
  /\ IF gi < Len(Genders)
       THEN /\ gi' = gi + 1
            /\ pc' = "fetch_ranking"
       ELSE /\ gi' = gi
            /\ pc' = "finish"
  /\ pre_tx' = tx
  /\ UNCHANGED << tx_aborted, now, jumps, runs, other_writes, faults, dry_run,
                  ranking_nodes, db_snapshot, cand, candidates_list, i,
                  athlete_details, was_updated, exit_code, issues, fetched,
                  exhausted, upserted, summaries, harnessVars >>

\* Step 6 when the statement of mark_dropped_athletes or the commit raises
\* (the connection is lost)
MarkDroppedRaises(env) ==
  /\ pc = "drop"
  /\ faults < MaxFaults
  /\ faults' = faults + 1
  /\ Abort("mark_dropped_athletes", env)
  /\ UNCHANGED << db, now, jumps, runs, other_writes, dry_run, gi, ranking_nodes,
                  db_snapshot, cand, candidates_list, i, athlete_details,
                  was_updated, stats, fetched, exhausted, upserted, summaries,
                  harnessVars >>

\* DATABASE_URL is not set or psycopg2.connect raises: the exception leaves
\* sync_top_100 before its try statement; main() exits with code 1
ConnectFails(d) ==
  /\ pc = "idle"
  /\ runs < MaxRuns
  /\ faults < MaxFaults
  /\ runs' = runs + 1
  /\ faults' = faults + 1
  /\ dry_run' = d
  /\ stats' = SyncStats
  /\ summaries' = << >>
  /\ exit_code' = 1
  /\ last_op' = [op |-> "connect_failed"]
  /\ pre_tx' = tx
  /\ UNCHANGED << db, tx, tx_aborted, now, jumps, other_writes, pc, gi,
                  ranking_nodes, db_snapshot, cand, candidates_list, i,
                  athlete_details, was_updated, issues, fetched, exhausted,
                  upserted, harnessVars >>

\* sync_top_100 returns the stats; main() writes the summary and exits
Finish ==
  /\ pc = "finish"
  /\ summaries' = Append(summaries, summary(stats))
  /\ exit_code' = IF stats.fetch_errors > 0 \/ stats.db_errors > 0 THEN 1 ELSE 0
  /\ pc' = "idle"
  /\ last_op' = [op |-> "finish"]
  /\ pre_tx' = tx
  /\ UNCHANGED << db, tx, tx_aborted, now, jumps, runs, other_writes, faults, dry_run, gi,
                  ranking_nodes, db_snapshot, cand, candidates_list, i,
                  athlete_details, was_updated, stats, issues, fetched,
                  exhausted, upserted, harnessVars >>

\* time passes between two invocations
AdvanceClock ==
  /\ pc = "idle"
  /\ jumps < MaxJumps
  /\ jumps' = jumps + 1
  /\ now' = now + JumpDays * TicksPerDay
  /\ last_op' = [op |-> "clock"]
  /\ pre_tx' = tx
  /\ UNCHANGED << db, tx, tx_aborted, runs, other_writes, faults, runVars, harnessVars >>

Next ==
  \/ StartRun(FALSE)
  \/ \E k \in FailCounts : \E nodes \in Rankings(Gender) : FetchRanking(k, nodes)
  \/ \E k \in FailCounts : \E env \in Environments : FetchRankingFails(k, env)
  \/ \E order \in UNION { Orders(S) : S \in SUBSET Ids } : Detect(order)
  \/ \E wa \in BatchSources : FetchBatch(wa)
  \/ ProcessAthlete
  \/ \E db_error \in BOOLEAN : ProcessAthleteRaises(db_error)
  \/ CommitBatch
  \/ CommitBatchRaises
  \/ MarkDropped
  \/ \E env \in Environments : MarkDroppedRaises(env)
  \/ ConnectFails(FALSE)
  \/ Finish
  \/ AdvanceClock

Spec == Init /\ [][Next]_vars

(* ------------------------------------------------------------------ *)
(* The other writer of the table                                      *)
(* ------------------------------------------------------------------ *)

\* ranks sync_athletes_from_rankings.py may record: inside and outside the
\* window of the top 100
OtherRanks == {1, TOP_N + 1}

\* the athletes it writes
OtherIds == {"m1"}

GenderNameOf(wa_id) == IF wa_id \in MenIds THEN "men" ELSE "women"

\* sync_athletes_from_rankings.py writes one athlete between two runs
OtherWrite(wa_id, name, rank) ==
  /\ pc = "idle"
  /\ other_writes < MaxOtherWrites
  /\ other_writes' = other_writes + 1
  /\ LET athlete == MkRanked(wa_id, name, GenderNameOf(wa_id), rank)
         st == rankings_upsert(db, wa_id, athlete.name, athlete.gender,
                               athlete.marathon_rank, compute_hash(athlete), now)
     IN /\ db' = st
        /\ tx' = st
  /\ last_op' = [op |-> "other_write", id |-> wa_id]
  /\ pre_tx' = tx
  /\ UNCHANGED << tx_aborted, now, jumps, runs, faults, runVars, harnessVars >>

NextShared ==
  \/ StartRun(FALSE)
  \/ \E k \in FailCounts : \E nodes \in Rankings(Gender) : FetchRanking(k, nodes)
  \/ \E order \in UNION { Orders(S) : S \in SUBSET Ids } : Detect(order)
  \/ \E wa \in BatchSources : FetchBatch(wa)
  \/ ProcessAthlete
  \/ CommitBatch
  \/ MarkDropped
  \/ Finish
  \/ AdvanceClock
  \/ \E wa_id \in OtherIds : \E rank \in OtherRanks : OtherWrite(wa_id, "n1", rank)

SpecShared == Init /\ [][NextShared]_vars

(* ------------------------------------------------------------------ *)
(* Dry runs and live runs                                             *)
(* ------------------------------------------------------------------ *)

NextDry ==
  \/ \E d \in BOOLEAN : StartRun(d)
  \/ \E k \in FailCounts : \E nodes \in Rankings(Gender) : FetchRanking(k, nodes)
  \/ \E order \in UNION { Orders(S) : S \in SUBSET Ids } : Detect(order)
  \/ \E wa \in BatchSources : FetchBatch(wa)
  \/ ProcessAthlete
  \/ \E db_error \in BOOLEAN : ProcessAthleteRaises(db_error)
  \/ CommitBatch
  \/ MarkDropped
  \/ Finish
  \/ AdvanceClock

SpecDry == Init /\ [][NextDry]_vars

(* ------------------------------------------------------------------ *)
(* Runs on a list of several batches                                  *)
(* ------------------------------------------------------------------ *)

NextBatches ==
  \/ StartRun(FALSE)
  \/ \E k \in FailCounts : \E nodes \in LongRankings(Gender) : FetchRanking(k, nodes)
  \/ \E k \in FailCounts : \E env \in Environments : FetchRankingFails(k, env)
  \/ \E order \in UNION { Orders(S) : S \in SUBSET Ids } : Detect(order)
  \/ \E wa \in BatchSources : FetchBatch(wa)
  \/ ProcessAthlete
  \/ \E db_error \in BOOLEAN : ProcessAthleteRaises(db_error)
  \/ CommitBatch
  \/ CommitBatchRaises
  \/ MarkDropped
  \/ \E env \in Environments : MarkDroppedRaises(env)
  \/ Finish
  \/ AdvanceClock

SpecBatches == Init /\ [][NextBatches]_vars

(* ------------------------------------------------------------------ *)
(* Properties of the run                                              *)
(* ------------------------------------------------------------------ *)

UpsertActed == last_op.op = "upsert" /\ ~dry_run

\* C1: outside dry-run, upsert_athlete inserts a row and returns True for an id
\* not yet stored; for a stored id it modifies the row and returns True exactly
\* when the stored hash or the stored rank differs from the new one; when
\* neither differs it returns False and the table is as it was before.
C1_ConditionalUpsert ==
  UpsertActed =>
    LET wa_id == last_op.id
    IN /\ DOMAIN tx = DOMAIN pre_tx \cup {wa_id}
       /\ \A w \in DOMAIN pre_tx \ {wa_id} : tx[w] = pre_tx[w]
       /\ wa_id \notin DOMAIN pre_tx =>
            /\ was_updated = TRUE
            /\ tx[wa_id].data_hash = last_op.data_hash
            /\ tx[wa_id].marathon_rank = last_op.rank
       /\ wa_id \in DOMAIN pre_tx =>
            /\ was_updated = ( \/ pre_tx[wa_id].data_hash # last_op.data_hash
                               \/ pre_tx[wa_id].marathon_rank # last_op.rank )
            /\ was_updated = (tx[wa_id] # pre_tx[wa_id])
            /\ ~was_updated =>
                 /\ tx[wa_id].last_fetched_at = pre_tx[wa_id].last_fetched_at
                 /\ tx[wa_id].last_seen_at = pre_tx[wa_id].last_seen_at

\* a stored row, fetched again after time has passed with the same hash and
\* rank: the upsert is a no-op
C1_Witness ==
  /\ UpsertActed
  /\ last_op.id \in DOMAIN pre_tx
  /\ was_updated = FALSE
  /\ pre_tx[last_op.id].last_fetched_at < now

C1_SeenInsert == UpsertActed /\ last_op.id \notin DOMAIN pre_tx
C1_SeenHashUpdate ==
  /\ UpsertActed /\ last_op.id \in DOMAIN pre_tx
  /\ pre_tx[last_op.id].data_hash # last_op.data_hash
  /\ pre_tx[last_op.id].marathon_rank = last_op.rank
C1_SeenRankUpdate ==
  /\ UpsertActed /\ last_op.id \in DOMAIN pre_tx
  /\ pre_tx[last_op.id].data_hash = last_op.data_hash
  /\ pre_tx[last_op.id].marathon_rank # last_op.rank

ListIds == Range(AthleteIds(ranking_nodes))

\* C5: within a category run, detail fetches, hash computations and upserts
\* happen only for ids of new, rank_changed or stale; a listed id in none of
\* the three sets is never fetched and never upserted.
C5_UnchangedSkipped ==
  /\ fetched \subseteq (cand.new_ids \cup cand.rank_changed_ids \cup cand.stale_ids)
  /\ upserted \subseteq (cand.new_ids \cup cand.rank_changed_ids \cup cand.stale_ids)
  /\ pc \in {"fetch_batch", "process", "drop"} =>
       \A a \in ListIds :
         ( /\ a \notin cand.new_ids
           /\ a \notin cand.rank_changed_ids
           /\ a \notin cand.stale_ids ) => (a \notin fetched /\ a \notin upserted)

\* the batches of the category are done: one listed id was a candidate and was
\* upserted, another listed id was no candidate
C5_Witness ==
  /\ pc = "drop"
  /\ upserted # {}
  /\ \E a \in ListIds :
       /\ a \notin cand.new_ids \cup cand.rank_changed_ids \cup cand.stale_ids
       /\ a \in DOMAIN db_snapshot

DropActed == last_op.op = "drop" /\ ~dry_run

\* C7: the Drop Marker of a run never clears last_seen_at of a record whose id
\* is in the current list of the category, whatever happened to its fetch or
\* upsert.
C7_DropExclusive ==
  DropActed =>
    \A w \in last_op.ids \cap DOMAIN pre_tx :
      /\ w \in DOMAIN tx
      /\ tx[w].last_seen_at = pre_tx[w].last_seen_at

\* the Drop Marker cleared a record, and left alone a listed record of the
\* category whose marker is set and whose upsert raised in this run
C7_Witness ==
  /\ DropActed
  /\ last_op.count > 0
  /\ \E w \in last_op.ids \cap DOMAIN pre_tx :
       /\ pre_tx[w].last_seen_at # NULL
       /\ pre_tx[w].gender = last_op.gender
       /\ stats.db_errors > 0

\* C8: fetch_athlete_details returns exactly the requested ids whose fetch
\* succeeded within the retry limit, in the order requested; an id that failed
\* on every attempt is never upserted, and the other ids of its batch are
\* fetched and upserted all the same.
C8_FetchIsolation ==
  /\ last_op.op = "fetch_batch" =>
       /\ { athlete_details[k].id : k \in DOMAIN athlete_details }
            = Range(last_op.batch) \ last_op.failed
       /\ Len(athlete_details) = Cardinality(Range(last_op.batch) \ last_op.failed)
       /\ \A k \in DOMAIN athlete_details : athlete_details[k].data.id = athlete_details[k].id
  /\ upserted \cap exhausted = {}
  /\ pc \in {"fetch_batch", "drop"} => upserted = fetched \ exhausted

\* a batch of two: the fetch of one id failed on every attempt, the other id was
\* fetched and its row written
C8_Witness ==
  /\ last_op.op = "commit"
  /\ ~dry_run
  /\ \E a, b \in fetched :
       /\ a \in exhausted
       /\ b \notin exhausted
       /\ b \in upserted
       /\ b \notin DOMAIN db_snapshot
       /\ b \in DOMAIN db

\* C9 (as claimed): at the end of a completed run, fetch_errors counts every id
\* whose detail fetch exhausted its retries.
C9_FetchErrorsCounted ==
  last_op.op = "finish" => stats.fetch_errors >= Cardinality(exhausted)

\* C6 (as claimed): outside dry-run, mark_dropped_athletes clears last_seen_at
\* on exactly the records of the category whose id is not in the list, whose
\* last_seen_at is set and whose rank is set and at most 100; it leaves every
\* other record untouched, returns the number cleared, and the run adds that
\* number to stats.dropped_athletes.
C6_DropMarkerAsClaimed ==
  DropActed =>
    LET hit == { w \in DOMAIN pre_tx :
                   /\ pre_tx[w].gender = last_op.gender
                   /\ w \notin last_op.ids
                   /\ pre_tx[w].last_seen_at # NULL
                   /\ pre_tx[w].marathon_rank # NULL
                   /\ pre_tx[w].marathon_rank <= 100 }
    IN /\ DOMAIN tx = DOMAIN pre_tx
       /\ \A w \in DOMAIN pre_tx :
            tx[w] = IF w \in hit
                      THEN [pre_tx[w] EXCEPT !.last_seen_at = NULL]
                      ELSE pre_tx[w]
       /\ last_op.count = Cardinality(hit)
       /\ stats.dropped_athletes = last_op.dropped_before + Cardinality(hit)

\* C6 (amended): the same, for the records that in addition have
\* ranking_source = 'world_marathon'; records of another ranking_source are
\* left untouched as well.
C6_DropMarker ==
  DropActed =>
    LET hit == { w \in DOMAIN pre_tx :
                   /\ pre_tx[w].gender = last_op.gender
                   /\ pre_tx[w].ranking_source = "world_marathon"
                   /\ w \notin last_op.ids
                   /\ pre_tx[w].last_seen_at # NULL
                   /\ pre_tx[w].marathon_rank # NULL
                   /\ pre_tx[w].marathon_rank <= 100 }
    IN /\ DOMAIN tx = DOMAIN pre_tx
       /\ \A w \in DOMAIN pre_tx :
            tx[w] = IF w \in hit
                      THEN [pre_tx[w] EXCEPT !.last_seen_at = NULL]
                      ELSE pre_tx[w]
       /\ tx = db
       /\ last_op.count = Cardinality(hit)
       /\ stats.dropped_athletes = last_op.dropped_before + Cardinality(hit)

\* the Drop Marker cleared one record of the category and left alone another
\* one, absent from the list with its marker set and its rank in the window,
\* that sync_athletes_from_rankings.py has re-labelled 'world_rankings'
C6_Witness ==
  /\ DropActed
  /\ \E w \in DOMAIN pre_tx :
       pre_tx[w].last_seen_at # NULL /\ tx[w].last_seen_at = NULL
  /\ \E v \in DOMAIN pre_tx \ last_op.ids :
       /\ pre_tx[v].gender = last_op.gender
       /\ pre_tx[v].ranking_source = "world_rankings"
       /\ pre_tx[v].last_seen_at # NULL
       /\ pre_tx[v].marathon_rank <= 100
       /\ tx[v] = pre_tx[v]

(* ------------------------------------------------------------------ *)
(* Function harness: detect_candidates and retry_with_backoff on      *)
(* bounded inputs                                                     *)
(* ------------------------------------------------------------------ *)

\* ranks a list or a stored row may carry, and ages of a stored row in ticks:
\* just fetched, 7 days, 7 days and a tick, 8 days, 9 days
HarnessRanks == {1, 2}
HarnessAges ==
  { 0, force_refresh_days * TicksPerDay, force_refresh_days * TicksPerDay + 1,
    (force_refresh_days + 1) * TicksPerDay, (force_refresh_days + 2) * TicksPerDay }
HarnessNow == (force_refresh_days + 2) * TicksPerDay

\* lists of distinct ids, each with any rank
HarnessNodes ==
  UNION { { [k \in DOMAIN o |-> MkNode(o[k], r[k])] : r \in [DOMAIN o -> HarnessRanks] } :
          o \in UNION { Orders(S) : S \in SUBSET HarnessIds } }

HarnessSnapshotRows ==
  [ data_hash : {<< "sha256" >>},
    marathon_rank : HarnessRanks \cup {NULL},
    last_fetched_at : {NULL} \cup { HarnessNow - a : a \in HarnessAges },
    last_seen_at : {NULL} ]

HarnessSnapshots == UNION { [S -> HarnessSnapshotRows] : S \in SUBSET HarnessIds }

DetectCalls ==
  { [fn |-> "detect_candidates", done |-> FALSE, ranking_nodes |-> n,
     db_snapshot |-> m, ret |-> NoCand] : n \in HarnessNodes, m \in HarnessSnapshots }

\* what the k-th call of the wrapped function does: raise, or return k
RetryOuts == { [j \in 1..(MAX_RETRIES + 1) |-> [raises |-> b[j], value |-> j]] :
                 b \in [1..(MAX_RETRIES + 1) -> BOOLEAN] }

RetryCalls ==
  { [fn |-> "retry_with_backoff", done |-> FALSE, outs |-> o, max_retries |-> n,
     ret |-> NoOp] : o \in RetryOuts, n \in 1..MAX_RETRIES }

\* dicts of the source over three keys, one of them outside the projection,
\* in every insertion order
HarnessValues(key) ==
  IF key = "id" THEN HarnessIds
  ELSE IF key = "name" THEN Names
  ELSE {"p1", "p2"}

HarnessDicts ==
  UNION { { [k \in DOMAIN o |-> << o[k], v[o[k]] >>] :
              v \in { f \in [Range(o) -> HarnessIds \cup Names \cup {"p1", "p2"}] :
                        \A key \in Range(o) : f[key] \in HarnessValues(key) } } :
          o \in UNION { Orders(S) : S \in SUBSET {"id", "name", "points"} } }

HashCalls ==
  { [fn |-> "canonical_hash", done |-> FALSE, d1 |-> a, d2 |-> b, ret |-> << >>] :
      a \in HarnessDicts, b \in HarnessDicts }

InitFn ==
  /\ InitRun
  /\ call \in DetectCalls \cup RetryCalls \cup HashCalls
  /\ sync_fields = TRUE

ApplyDetect ==
  /\ call.fn = "detect_candidates"
  /\ ~call.done
  /\ call' = [call EXCEPT !.done = TRUE,
                          !.ret = detect_candidates(call.ranking_nodes,
                                    call.db_snapshot, force_refresh_days, HarnessNow)]
  /\ UNCHANGED << db, tx, tx_aborted, now, jumps, runs, other_writes, faults,
                  runVars, last_op, pre_tx, prev_op, stmts, sync_fields >>

ApplyRetry ==
  /\ call.fn = "retry_with_backoff"
  /\ ~call.done
  /\ call' = [call EXCEPT !.done = TRUE,
                          !.ret = retry_with_backoff(call.outs, call.max_retries,
                                                     INITIAL_BACKOFF)]
  /\ UNCHANGED << db, tx, tx_aborted, now, jumps, runs, other_writes, faults,
                  runVars, last_op, pre_tx, prev_op, stmts, sync_fields >>

\* Step 5 of sync_top_100 on two records: canonicalize, hash
ApplyHash ==
  /\ call.fn = "canonical_hash"
  /\ ~call.done
  /\ call' = [call EXCEPT !.done = TRUE,
                          !.ret = << canonical_hash(canonicalize_athlete(AsDetail(call.d1))),
                                     canonical_hash(canonicalize_athlete(AsDetail(call.d2))) >>]
  /\ UNCHANGED << db, tx, tx_aborted, now, jumps, runs, other_writes, faults,
                  runVars, last_op, pre_tx, prev_op, stmts, sync_fields >>

NextFn == ApplyDetect \/ ApplyRetry \/ ApplyHash

SpecFn == InitFn /\ [][NextFn]_vars

DetectDone == call.fn = "detect_candidates" /\ call.done

CallIds == { NodeId(call.ranking_nodes[k]) : k \in DOMAIN call.ranking_nodes }
CallRank(a) ==
  call.ranking_nodes[CHOOSE k \in DOMAIN call.ranking_nodes :
                       NodeId(call.ranking_nodes[k]) = a].rank

\* the row of a was fetched more than force_refresh_days whole days ago
StaleByCode(a) ==
  /\ call.db_snapshot[a].last_fetched_at # NULL
  /\ HarnessNow - call.db_snapshot[a].last_fetched_at
       >= (force_refresh_days + 1) * TicksPerDay

C4_NewAndUnchanged ==
  DetectDone =>
    /\ call.ret.new_ids = CallIds \ DOMAIN call.db_snapshot
    /\ \A a \in CallIds \cap DOMAIN call.db_snapshot :
         ( /\ call.db_snapshot[a].marathon_rank = CallRank(a)
           /\ call.db_snapshot[a].last_fetched_at # NULL
           /\ HarnessNow - call.db_snapshot[a].last_fetched_at
                <= force_refresh_days * TicksPerDay )
           => /\ a \notin call.ret.new_ids
              /\ a \notin call.ret.rank_changed_ids
              /\ a \notin call.ret.stale_ids

\* one listed id is absent from the snapshot, another is stored with the same
\* rank and was fetched exactly force_refresh_days days ago
C4_Witness ==
  /\ DetectDone
  /\ CallIds \ DOMAIN call.db_snapshot # {}
  /\ \E a \in CallIds \cap DOMAIN call.db_snapshot :
       /\ call.db_snapshot[a].marathon_rank = CallRank(a)
       /\ call.db_snapshot[a].last_fetched_at
            = HarnessNow - force_refresh_days * TicksPerDay

RetryDone == call.fn = "retry_with_backoff" /\ call.done

\* the calls among the first n that return
Returning(n) == { j \in 1..n : ~call.outs[j].raises }
FirstReturning(n) == CHOOSE j \in Returning(n) : \A q \in Returning(n) : j <= q

\* C10: retry_with_backoff calls the function at most max_retries times; it
\* returns the value of the first call that succeeds and calls no more; after
\* max_retries failures in a row it raises the exception of the last attempt.
C10_RetryBound ==
  RetryDone =>
    /\ call.ret.calls <= call.max_retries
    /\ Returning(call.max_retries) # {} =>
         /\ ~call.ret.raised
         /\ call.ret.calls = FirstReturning(call.max_retries)
         /\ call.ret.value = call.outs[FirstReturning(call.max_retries)].value
    /\ Returning(call.max_retries) = {} =>
         /\ call.ret.raised
         /\ call.ret.calls = call.max_retries
         /\ call.ret.exc = call.max_retries

\* with the default limit, every attempt failed although a further call would
\* have returned
C10_Witness ==
  /\ RetryDone
  /\ call.max_retries = MAX_RETRIES
  /\ call.ret.raised
  /\ call.ret.calls = MAX_RETRIES
  /\ ~call.outs[MAX_RETRIES + 1].raises

(* ------------------------------------------------------------------ *)
(* Statement harness: the statements of sync_top_100.py run one after *)
(* another on the table, each committed                               *)
(* ------------------------------------------------------------------ *)

MaxStmts == 3

\* upsert_athlete outside dry-run, its statement not raising, dt ticks after
\* the statement before it
StmtUpsert(wa_id, name, rank, dt) ==
  /\ stmts < MaxStmts
  /\ now' = now + dt
  /\ LET athlete_data == MkDetail(wa_id, name)
         data_hash == canonical_hash(canonicalize_athlete(athlete_data))
         r == upsert_athlete(tx, athlete_data, rank, GenderNameOf(wa_id),
                             data_hash, FALSE, now')
     IN /\ tx' = r.store
        /\ db' = r.store
        /\ was_updated' = r.ret
        /\ last_op' = [op |-> "upsert", id |-> wa_id, rank |-> rank,
                       data_hash |-> data_hash, data |-> athlete_data,
                       ret |-> r.ret]
  /\ prev_op' = last_op
  /\ pre_tx' = tx
  /\ stmts' = stmts + 1
  /\ UNCHANGED << tx_aborted, jumps, runs, other_writes, faults, pc, dry_run,
                  gi, ranking_nodes, db_snapshot, cand, candidates_list, i,
                  athlete_details, stats, exit_code, issues, fetched, exhausted,
                  upserted, summaries, call, sync_fields >>

\* mark_dropped_athletes outside dry-run
StmtDrop(current_top_100_ids) ==
  /\ stmts < MaxStmts
  /\ LET r == mark_dropped_athletes(tx, current_top_100_ids, "men", FALSE)
     IN /\ tx' = r.store
        /\ db' = r.store
        /\ last_op' = [op |-> "drop", count |-> r.count, gender |-> "men",
                       ids |-> Range(current_top_100_ids),
                       dropped_before |-> stats.dropped_athletes]
  /\ prev_op' = last_op
  /\ pre_tx' = tx
  /\ stmts' = stmts + 1
  /\ UNCHANGED << tx_aborted, now, jumps, runs, other_writes, faults, runVars, call,
                  sync_fields >>

NextStore ==
  \/ \E wa_id \in HarnessIds : \E name \in NamesOf(wa_id) : \E rank \in HarnessRanks :
       \E dt \in {0, 1} : StmtUpsert(wa_id, name, rank, dt)
  \/ \E o \in UNION { Orders(S) : S \in SUBSET HarnessIds } : StmtDrop(o)

SpecStore == Init /\ [][NextStore]_vars

\* the last two statements were upsert_athlete with the same record, rank and hash
UpsertTwice ==
  /\ last_op.op = "upsert"
  /\ prev_op.op = "upsert"
  /\ prev_op.data = last_op.data
  /\ prev_op.rank = last_op.rank
  /\ prev_op.data_hash = last_op.data_hash

\* C2 (as claimed): two upserts in a row with the same record, rank and hash
\* make exactly one write, the first: the first returns True, the second
\* returns False and leaves the store as the first left it.
C2_IdempotenceAsClaimed ==
  UpsertTwice =>
    /\ prev_op.ret
    /\ ~last_op.ret
    /\ tx = pre_tx

\* C2 (amended): of two upserts in a row with the same record, rank and hash,
\* outside dry-run, the second returns False and leaves the store, last_fetched_at
\* and last_seen_at included, as the first left it, so that at most one of the
\* two writes, and only the first can.
C2_Idempotence ==
  UpsertTwice =>
    /\ ~last_op.ret
    /\ ~was_updated
    /\ tx = pre_tx
    /\ db = pre_tx

\* the first of the two wrote the row, the second came a tick later
C2_Witness ==
  /\ UpsertTwice
  /\ prev_op.ret
  /\ tx[last_op.id].last_fetched_at < now

\* the first of the two already found the hash and the rank stored
C2_FirstWasNoOp ==
  /\ UpsertTwice
  /\ ~prev_op.ret

(* ------------------------------------------------------------------ *)
(* Properties of error handling                                       *)
(* ------------------------------------------------------------------ *)

\* C11: an upsert exception for one id costs that id only: no other id's
\* upsert fails because of it, and what the other ids of the batch wrote is
\* committed with the batch.
C11_UpsertErrorIsolated ==
  /\ last_op.op = "upsert_raised" => ~last_op.cascaded
  /\ (last_op.op = "commit" /\ ~dry_run) => db = pre_tx

\* C12: a batch whose commit succeeds is in the committed store from then on:
\* the commit makes the committed store equal to the transaction's view, no
\* step but a commit or the Drop Marker changes the committed store, and the
\* handler of a failed batch and the handler of an abort roll the
\* transaction's view back to the committed store and leave that as it is.
C12_IncrementalCommit ==
  [][ /\ (last_op'.op = "commit" /\ ~tx_aborted) => db' = tx
      /\ last_op'.op \notin {"commit", "drop"} => db' = db
      /\ last_op'.op \in {"commit_raised", "abort"} => tx' = db ]_vars

\* the commit of a later batch has failed: its upserts are rolled back, the
\* rows of the batch committed before it are kept
C12_Witness ==
  /\ last_op.op = "commit_raised"
  /\ i > BATCH_SIZE
  /\ pre_tx # db
  /\ tx = db
  /\ DOMAIN db # {}

\* C13: a ranking list is used only when a call of the source succeeded within
\* MAX_RETRIES attempts; when all attempts fail, nothing of the category is
\* done (no snapshot, no detail fetch, no upsert, no drop marking, no counter
\* moves), the transaction is rolled back to the committed store, the
\* exception of fetch_ranking_list leaves sync_top_100 and the exit code is 1.
C13_RankingFetchFatal ==
  [][ /\ last_op'.op = "fetch_ranking" => last_op'.failures < MAX_RETRIES
      /\ (last_op'.op = "abort" /\ last_op'.cause = "fetch_ranking_list") =>
           /\ pc = "fetch_ranking"
           /\ pc' = "idle"
           /\ exit_code' = 1
           /\ last_op'.propagated = "fetch_ranking_list"
           /\ db' = db
           /\ tx' = db
           /\ UNCHANGED << db_snapshot, cand, fetched, upserted, stats >> ]_vars

\* the list of the second category could not be fetched after the first
\* category had stored rows
C13_Witness ==
  /\ last_op.op = "abort"
  /\ last_op.cause = "fetch_ranking_list"
  /\ gi = 2
  /\ DOMAIN db # {}
  /\ exit_code = 1

C15_EscalationFireAndForget ==
  last_op.op = "abort" =>
    /\ ~last_op.issue.raised
    /\ last_op.propagated = last_op.cause
    /\ exit_code = 1

\* the request to the endpoint was sent and failed
C15_Witness ==
  /\ last_op.op = "abort"
  /\ last_op.issue.posted
  /\ ~last_op.issue.created

\* C16: an invocation that has ended has written the stats summary exactly once.
C16_SummaryAlways ==
  exit_code # NULL => Len(summaries) = 1

\* C17: a run that processed all categories exits non-zero exactly when
\* fetch_errors or db_errors is non-zero, and never with zero when a detail
\* fetch exhausted its retries or an upsert raised; an aborted run exits
\* non-zero; 'success' in the summary is true exactly when both counters are 0.
C17_ExitCode ==
  /\ last_op.op = "finish" =>
       /\ (exit_code # 0) <=> (stats.fetch_errors # 0 \/ stats.db_errors # 0)
       /\ exhausted # {} => exit_code # 0
       /\ Len(summaries) = 1
       /\ summaries[1].success <=> (stats.fetch_errors = 0 /\ stats.db_errors = 0)
  /\ last_op.op \in {"abort", "connect_failed"} => exit_code # 0

(* ------------------------------------------------------------------ *)
(* Properties of the stored rows                                      *)
(* ------------------------------------------------------------------ *)

HashAndRank(row) == << row.data_hash, row.marathon_rank >>

\* the steps that end a transaction
EndsTransaction(op) == op \in {"start", "commit", "commit_raised", "abort"}

\* C18: in the transaction's view the hash or the rank of a row changes only in
\* a step of upsert_athlete for that row, which leaves both as the statement
\* sets them, or when a rollback restores the committed row; the committed
\* store takes hash and rank of a row together from the transaction's view; the
\* Drop Marker changes neither.
C18_HashAndRankTogether ==
  [][ /\ \A a \in DOMAIN tx' :
           (a \notin DOMAIN tx \/ HashAndRank(tx'[a]) # HashAndRank(tx[a])) =>
             \/ /\ last_op'.op = "upsert"
                /\ last_op'.id = a
                /\ HashAndRank(tx'[a]) = << last_op'.data_hash, last_op'.rank >>
             \/ /\ EndsTransaction(last_op'.op)
                /\ a \in DOMAIN db
                /\ tx'[a] = db[a]
      /\ \A a \in DOMAIN db' :
           (a \notin DOMAIN db \/ HashAndRank(db'[a]) # HashAndRank(db[a])) =>
             /\ a \in DOMAIN tx
             /\ HashAndRank(db'[a]) = HashAndRank(tx[a])
      /\ last_op'.op = "drop" =>
           \A a \in DOMAIN tx : HashAndRank(tx'[a]) = HashAndRank(tx[a]) ]_vars

\* one upsert has changed the hash and the rank of a stored row
C18_Witness ==
  /\ last_op.op = "upsert"
  /\ last_op.id \in DOMAIN pre_tx
  /\ pre_tx[last_op.id].data_hash # tx[last_op.id].data_hash
  /\ pre_tx[last_op.id].marathon_rank # tx[last_op.id].marathon_rank

\* C19: no committed row is ever deleted (the store, keyed by the external id,
\* holds one row per id); a committed row changes only when a batch commits an
\* upsert executed for its id, or in the Drop Marker, which clears its
\* last_seen_at and nothing else.
C19_NeverDeleted ==
  [][ /\ DOMAIN db \subseteq DOMAIN db'
      /\ \A a \in DOMAIN db :
           db'[a] # db[a] =>
             \/ /\ last_op'.op = "commit"
                /\ a \in upserted
                /\ db'[a] = tx[a]
             \/ /\ last_op'.op = "drop"
                /\ db'[a] = [db[a] EXCEPT !.last_seen_at = NULL] ]_vars

\* the Drop Marker has cleared a row and every row is still there
C19_Witness ==
  /\ last_op.op = "drop"
  /\ last_op.count > 0
  /\ DOMAIN pre_tx \subseteq DOMAIN db
  /\ \E a \in DOMAIN db : db[a].last_seen_at = NULL /\ pre_tx[a].last_seen_at # NULL

(* ------------------------------------------------------------------ *)
(* Properties of the hash                                             *)
(* ------------------------------------------------------------------ *)

HashDone == call.fn = "canonical_hash" /\ call.done

\* the two records agree on every key of the projection
SameProjection == \A key \in ProjectionKeys : DictGet(call.d1, key) = DictGet(call.d2, key)

\* C20: two detail records that agree on the keys of the projection have the
\* same hash, whatever the order of their keys and their other keys.
C20_HashDeterminism ==
  (HashDone /\ SameProjection) => call.ret[1] = call.ret[2]

\* the records agree on id and name, list their keys in different orders and
\* differ on a key outside the projection
C20_Witness ==
  /\ HashDone
  /\ SameProjection
  /\ Len(call.d1) = 3
  /\ Len(call.d2) = 3
  /\ call.d1[1][1] # call.d2[1][1]
  /\ DictGet(call.d1, "points") # DictGet(call.d2, "points")
  /\ call.ret[1] = call.ret[2]

(* ------------------------------------------------------------------ *)
(* Sensitivity of the hash                                            *)
(* ------------------------------------------------------------------ *)

\* the keys of the projection canonicalize_athlete returns
CanonicalFields ==
  { "id", "name", "gender", "country", "dob", "personalBest", "seasonBest",
    "headshotUrl", "sponsor", "age" }

\* the fields of the projection on which the two records of the call differ
DifferingFields ==
  { f \in CanonicalFields :
      canonicalize_athlete(AsDetail(call.d1))[f]
        # canonicalize_athlete(AsDetail(call.d2))[f] }

MaxSeeds == 2

\* the source data: the men's list and the name in every detail record (the
\* women's list is empty)
RepeatSources ==
  { [fn |-> "source", men |-> nodes, names |-> ns] :
      nodes \in Rankings("M"),
      ns \in { f \in [HarnessIds -> Names] : \A a \in HarnessIds : f[a] \in NamesOf(a) } }

InitRepeat ==
  /\ InitRun
  /\ call \in RepeatSources
  /\ sync_fields = TRUE

\* get_rankings of the category, from the source data
SourceList == IF Gender = "M" THEN call.men ELSE << >>

\* get_athlete of the ids of the batch, from the source data; every call is
\* answered within the retries
SourceDetails ==
  [a \in Range(Batch) |-> FailThen(MAX_RETRIES - 1, MkDetail(a, call.names[a]))]

\* earlier statements and a pause, then complete runs without fetch or
\* database errors, all against the same source data
NextRepeat ==
  \/ /\ runs = 0
     /\ stmts < MaxSeeds
     /\ \E wa_id \in HarnessIds : \E name \in NamesOf(wa_id) : \E rank \in HarnessRanks :
          StmtUpsert(wa_id, name, rank, 0)
  \/ /\ runs = 0
     /\ stmts < MaxSeeds
     /\ \E o \in UNION { Orders(S) : S \in SUBSET HarnessIds } : StmtDrop(o)
  \/ /\ runs = 0
     /\ AdvanceClock
  \/ StartRun(FALSE)
  \/ FetchRanking(MAX_RETRIES - 1, SourceList)
  \/ \E order \in UNION { Orders(S) : S \in SUBSET Ids } : Detect(order)
  \/ FetchBatch(SourceDetails)
  \/ ProcessAthlete
  \/ CommitBatch
  \/ MarkDropped
  \/ Finish

SpecRepeat == InitRepeat /\ [][NextRepeat]_vars

\* C22: in a complete run that follows a complete run without errors, against
\* the same source data and with no pause in between, no step changes the
\* table, committed or not, and the run ends with new_athletes,
\* updated_athletes and dropped_athletes all zero.
C22_RepeatedRunIdempotent ==
  [][ /\ runs >= 2 => (db' = db /\ tx' = tx)
      /\ (runs' >= 2 /\ last_op'.op = "finish")
           => /\ stats'.new_athletes = 0
              /\ stats'.updated_athletes = 0
              /\ stats'.dropped_athletes = 0 ]_vars

\* the second run has ended; the first one had found a table with a record
\* that it marked as dropped and had added a record of its own
C22_Witness ==
  /\ runs = 2
  /\ last_op.op = "finish"
  /\ \E a \in DOMAIN db : db[a].last_seen_at = NULL
  /\ \E a \in DOMAIN db : db[a].last_seen_at # NULL /\ a \in Range(AthleteIds(call.men))

(* ------------------------------------------------------------------ *)
(* Dry runs                                                           *)
(* ------------------------------------------------------------------ *)

\* C23: no step of a run with dry_run = True changes the athletes table:
\* from the opening of the connection to the end of the run the committed
\* table stays what it was, and the connection sees nothing else.
C23_DryRunWritesNothing ==
  [][ ((dry_run' /\ pc' # "idle") \/ (dry_run /\ pc # "idle"))
        => (db' = db /\ tx' = db) ]_vars

\* a dry run has called upsert_athlete and has counted a record that a live
\* run would mark as dropped; the table is what it was
C23_Witness ==
  /\ dry_run
  /\ last_op.op = "drop"
  /\ last_op.count > 0
  /\ upserted # {}
  /\ tx = db
  /\ \A a \in DOMAIN db : db[a].last_seen_at # NULL

(* ------------------------------------------------------------------ *)
(* The timestamps and the rank of a record                            *)
(* ------------------------------------------------------------------ *)

\* the Drop Marker of a category run has just committed
CategoryRunDone == last_op.op = "drop" /\ pc # "idle"

\* C24: after a category run without fetch or database errors, a record of
\* the category with a rank in the window has last_seen_at set if and only if
\* its id is in the ranked list of that run.
C24_SeenIffListed ==
  CategoryRunDone =>
    \A a \in DOMAIN db :
      (/\ db[a].gender = last_op.gender
       /\ db[a].marathon_rank # NULL
       /\ db[a].marathon_rank <= TOP_N)
        => (db[a].last_seen_at # NULL <=> a \in last_op.ids)

\* C25: after a category run in which every detail fetch succeeded and no
\* statement raised, every record for which upsert_athlete was called has
\* last_fetched_at at the time of the run.
C25_FetchedAtIsLastFetch ==
  CategoryRunDone =>
    \A a \in upserted : a \in DOMAIN db /\ db[a].last_fetched_at = now

\* the records the Drop Marker has just marked as dropped
JustDropped ==
  { a \in DOMAIN db \cap DOMAIN pre_tx :
      pre_tx[a].last_seen_at # NULL /\ db[a].last_seen_at = NULL }

\* C26 as stated: a record the Drop Marker has just marked as dropped has no
\* rank.
C26_DroppedRankNullAsClaimed ==
  DropActed => \A a \in JustDropped : db[a].marathon_rank = NULL

\* C26: a record the Drop Marker has just marked as dropped keeps the rank it
\* had, a rank inside the tracked window.
C26_DroppedRankKept ==
  DropActed =>
    \A a \in JustDropped :
      /\ db[a].marathon_rank = pre_tx[a].marathon_rank
      /\ db[a].marathon_rank # NULL
      /\ db[a].marathon_rank <= TOP_N

\* the Drop Marker of a run has marked a record
C26_Witness ==
  /\ DropActed
  /\ pc # "idle"
  /\ JustDropped # {}
  /\ last_op.count = Cardinality(JustDropped)

(* ------------------------------------------------------------------ *)
(* Rank changes and unchanged athletes, end to end                    *)
(* ------------------------------------------------------------------ *)

\* ids of the snapshot whose rank in the list of the category run differs
\* from the stored one
RankChanged ==
  { a \in DOMAIN db_snapshot \cap last_op.ids :
      db_snapshot[a].marathon_rank # RankMapGet(ranking_nodes, a) }

\* those of them whose detail fetch succeeded and whose stored rank is not
\* the rank of the list
RankNotStored ==
  { a \in RankChanged \ exhausted :
      a \notin DOMAIN db \/ db[a].marathon_rank # RankMapGet(ranking_nodes, a) }

\* C27: every id of the snapshot whose rank in the list differs from the
\* stored rank is in rank_changed_ids; and in a category run without a failed
\* batch every such id whose detail fetch succeeded has been counted as
\* updated and has the rank of the list stored, unless its own upsert raised:
\* no more of them are uncounted or left with the old rank than db errors
\* were counted.
C27_RankChangeStored ==
  (CategoryRunDone /\ ~dry_run /\ stats.fetch_errors = 0) =>
    /\ RankChanged \subseteq cand.rank_changed_ids
    /\ stats.updated_athletes + stats.db_errors >= Cardinality(RankChanged \ exhausted)
    /\ Cardinality(RankNotStored) <= stats.db_errors

\* the ids of the list of the category run that are in none of the three sets
NotCandidates == last_op.ids \ AllCandidates(cand)

\* C28: after a category run every id of the list that is not a candidate has
\* had no detail fetch and has been counted in stats.unchanged_athletes.
C28_UnchangedCounted ==
  CategoryRunDone =>
    /\ NotCandidates \cap fetched = {}
    /\ stats.unchanged_athletes >= Cardinality(NotCandidates)

(* ------------------------------------------------------------------ *)
(* The staleness test                                                 *)
(* ------------------------------------------------------------------ *)

\* C30: a listed id stored with the rank of the list and a time of its last
\* fetch is in stale_ids exactly when that time lies more than
\* force_refresh_days days back, by any fraction of a day.
C30_StaleExactlyOverThreshold ==
  DetectDone =>
    \A a \in CallIds \cap DOMAIN call.db_snapshot :
      ( /\ call.db_snapshot[a].marathon_rank = CallRank(a)
        /\ call.db_snapshot[a].last_fetched_at # NULL )
        => ( a \in call.ret.stale_ids
             <=> HarnessNow - call.db_snapshot[a].last_fetched_at
                   > force_refresh_days * TicksPerDay )

(* ------------------------------------------------------------------ *)
(* sync_athletes_from_rankings.py                                     *)
(* ------------------------------------------------------------------ *)

\* invocations of the script
MaxRankingsRuns == 2

\* run_migration: the schema additions are executed and committed when the
\* migration file is there and the statement does not raise; it is handed no
\* dry-run flag. The value is whether the table has the sync tracking columns
\* afterwards
run_migration(fields, file_exists, raises) ==
  IF ~file_exists THEN fields
  ELSE IF raises THEN fields
  ELSE TRUE

\* fetch_existing_athletes: the rows with a world_athletics_id, by that id
fetch_existing_athletes(store) ==
  [w \in DOMAIN store |-> [data_hash |-> store[w].data_hash]]

\* detect_changes
detect_changes(extracted_athletes, existing_athletes, force_update) ==
  LET IsNew(athlete) ==
        /\ Truthy(athlete.world_athletics_id)
        /\ athlete.world_athletics_id \notin DOMAIN existing_athletes
      IsChanged(athlete) ==
        /\ Truthy(athlete.world_athletics_id)
        /\ athlete.world_athletics_id \in DOMAIN existing_athletes
        /\ \/ force_update
           \/ existing_athletes[athlete.world_athletics_id].data_hash
                # compute_hash(athlete)
      IsUnchanged(athlete) ==
        /\ Truthy(athlete.world_athletics_id)
        /\ athlete.world_athletics_id \in DOMAIN existing_athletes
        /\ ~force_update
        /\ existing_athletes[athlete.world_athletics_id].data_hash
             = compute_hash(athlete)
  IN [ new_athletes |-> SelectSeq(extracted_athletes, IsNew),
       changed_athletes |-> SelectSeq(extracted_athletes, IsChanged),
       unchanged_athletes |-> SelectSeq(extracted_athletes, IsUnchanged) ]

\* the two loops of sync_to_database over upsert_athlete
RECURSIVE rankings_upsert_all(_, _, _)
rankings_upsert_all(store, athletes, t) ==
  IF athletes = << >> THEN store
  ELSE LET athlete == Head(athletes)
       IN rankings_upsert_all(
            rankings_upsert(store, athlete.world_athletics_id, athlete.name,
                            athlete.gender, athlete.marathon_rank,
                            compute_hash(athlete), t),
            Tail(athletes), t)

\* the table after sync_to_database with dry_run = d, no statement raising
sync_to_database(store, new_athletes, changed_athletes, d, t) ==
  IF new_athletes = << >> /\ changed_athletes = << >> THEN store
  ELSE IF d THEN store
  ELSE rankings_upsert_all(store, new_athletes \o changed_athletes, t)

\* what the scrape of the rankings may give: athletes of HarnessIds in any
\* order, the k-th of them at rank k
ScrapedRankings ==
  UNION { { [k \in DOMAIN o |-> MkRanked(o[k], ns[o[k]], GenderNameOf(o[k]), k)] :
              ns \in { f \in [Range(o) -> Names] : \A a \in Range(o) : f[a] \in NamesOf(a) } } :
          o \in UNION { Orders(S) : S \in SUBSET HarnessIds } }

RankingsIdle ==
  [fn |-> "rankings_main", pc |-> "idle", dry_run |-> FALSE, force_update |-> FALSE,
   all_athletes |-> << >>, existing_athletes |-> EmptyStore]

\* the table may or may not have the sync tracking columns yet
InitRankings ==
  /\ InitRun
  /\ call = RankingsIdle
  /\ sync_fields \in BOOLEAN

\* main(): the arguments are parsed and the rankings scraped
RankingsStart(d, force_update, all_athletes) ==
  /\ call.pc = "idle"
  /\ other_writes < MaxRankingsRuns
  /\ other_writes' = other_writes + 1
  /\ call' = [call EXCEPT !.pc = "migrate", !.dry_run = d,
                          !.force_update = force_update,
                          !.all_athletes = all_athletes,
                          !.existing_athletes = EmptyStore]
  /\ last_op' = [op |-> "rankings_start"]
  /\ pre_tx' = tx
  /\ UNCHANGED << db, tx, tx_aborted, now, jumps, runs, faults, runVars,
                  prev_op, stmts, sync_fields >>

\* main(): run_migration(conn), before the existing athletes are read
RunMigration(file_exists, raises) ==
  /\ call.pc = "migrate"
  /\ sync_fields' = run_migration(sync_fields, file_exists, raises)
  /\ call' = [call EXCEPT !.pc = "read"]
  /\ last_op' = [op |-> "run_migration", executed |-> (file_exists /\ ~raises)]
  /\ pre_tx' = tx
  /\ UNCHANGED << db, tx, tx_aborted, now, jumps, runs, other_writes, faults,
                  runVars, prev_op, stmts >>

\* main(): fetch_existing_athletes(conn); its SELECT names the sync tracking
\* columns and raises without them, which ends the invocation
RankingsRead ==
  /\ call.pc = "read"
  /\ call' = IF sync_fields
               THEN [call EXCEPT !.pc = "sync",
                                 !.existing_athletes = fetch_existing_athletes(db)]
               ELSE [call EXCEPT !.pc = "idle"]
  /\ last_op' = [op |-> "rankings_read", raised |-> ~sync_fields]
  /\ pre_tx' = tx
  /\ UNCHANGED << db, tx, tx_aborted, now, jumps, runs, other_writes, faults,
                  runVars, prev_op, stmts, sync_fields >>

\* main(): detect_changes and sync_to_database, committed
RankingsSync ==
  /\ call.pc = "sync"
  /\ LET c == detect_changes(call.all_athletes, call.existing_athletes,
                             call.force_update)
         st == sync_to_database(db, c.new_athletes, c.changed_athletes,
                                call.dry_run, now)
     IN /\ db' = st
        /\ tx' = st
        /\ last_op' = [op |-> "rankings_sync", new |-> Len(c.new_athletes),
                       changed |-> Len(c.changed_athletes)]
  /\ call' = [call EXCEPT !.pc = "idle"]
  /\ pre_tx' = tx
  /\ UNCHANGED << tx_aborted, now, jumps, runs, other_writes, faults, runVars,
                  prev_op, stmts, sync_fields >>

\* sync_to_database: a statement raises, the transaction is rolled back and
\* the exception ends the invocation
RankingsSyncRaises ==
  /\ call.pc = "sync"
  /\ ~call.dry_run
  /\ LET c == detect_changes(call.all_athletes, call.existing_athletes,
                             call.force_update)
     IN c.new_athletes \o c.changed_athletes # << >>
  /\ faults < MaxFaults
  /\ faults' = faults + 1
  /\ call' = [call EXCEPT !.pc = "idle"]
  /\ last_op' = [op |-> "rankings_sync_raised"]
  /\ pre_tx' = tx
  /\ UNCHANGED << db, tx, tx_aborted, now, jumps, runs, other_writes, runVars,
                  prev_op, stmts, sync_fields >>

NextRankings ==
  \/ \E d \in BOOLEAN : \E force_update \in BOOLEAN :
       \E all_athletes \in ScrapedRankings : RankingsStart(d, force_update, all_athletes)
  \/ \E file_exists \in BOOLEAN : \E raises \in BOOLEAN : RunMigration(file_exists, raises)
  \/ RankingsRead
  \/ RankingsSync
  \/ RankingsSyncRaises

SpecRankings == InitRankings /\ [][NextRankings]_vars

\* C29: no step of an invocation with --dry-run changes the database, neither
\* the rows of the athletes table nor its columns.
C29_RankingsDryRunWritesNothing ==
  [][ (call.dry_run /\ call.pc # "idle")
        => (db' = db /\ sync_fields' = sync_fields) ]_vars

(* ------------------------------------------------------------------ *)
(* The backoff schedule                                               *)
(* ------------------------------------------------------------------ *)

\* C31 as stated: with the defaults, a fetch that fails on every attempt
\* waits 2, 4, 8, 16 and 32 seconds.
C31_BackoffAsClaimed ==
  (RetryDone /\ call.max_retries = MAX_RETRIES /\ call.ret.raised)
    => call.ret.slept = << 2, 4, 8, 16, 32 >>

\* C31: retry_with_backoff waits after every failed attempt but the last
\* one allowed, initial_backoff * 2^attempt seconds after the attempt numbered
\* attempt from zero; with the defaults a fetch that fails on every attempt
\* waits 2, 4, 8 and 16 seconds and raises after the fifth attempt without
\* waiting.
C31_Backoff ==
  RetryDone =>
    /\ Len(call.ret.slept) = call.ret.calls - 1
    /\ \A k \in 1..Len(call.ret.slept) :
         call.ret.slept[k] = INITIAL_BACKOFF * Pow2(k - 1)
    /\ (call.max_retries = MAX_RETRIES /\ call.ret.raised)
         => call.ret.slept = << 2, 4, 8, 16 >>

\* with the defaults, every attempt failed
C31_Witness ==
  /\ RetryDone
  /\ call.max_retries = MAX_RETRIES
  /\ call.ret.raised
  /\ call.ret.calls = MAX_RETRIES
  /\ Len(call.ret.slept) = MAX_RETRIES - 1

(* ------------------------------------------------------------------ *)
(* Batching                                                           *)
(* ------------------------------------------------------------------ *)

\* C32: every batch holds at least one and at most BATCH_SIZE candidates,
\* exactly BATCH_SIZE unless it is the last one, none of them fetched before
\* in this category run; and when the Drop Marker runs, a detail fetch has
\* been started for every candidate, failed batches or not.
C32_Batching ==
  [][ /\ last_op'.op = "fetch_batch" =>
           /\ Len(last_op'.batch) >= 1
           /\ Len(last_op'.batch) <= BATCH_SIZE
           /\ i + BATCH_SIZE < Len(candidates_list) => Len(last_op'.batch) = BATCH_SIZE
           /\ Range(last_op'.batch) \subseteq AllCandidates(cand)
           /\ pc = "fetch_batch" => Range(last_op'.batch) \cap fetched = {}
      /\ last_op'.op = "drop" => fetched' = AllCandidates(cand') ]_vars

\* the second batch, smaller than BATCH_SIZE, is fetched after the commit of
\* the first batch has failed
C32_Witness ==
  /\ last_op.op = "fetch_batch"
  /\ i = BATCH_SIZE
  /\ Len(last_op.batch) < BATCH_SIZE
  /\ stats.fetch_errors > 0
  /\ fetched = AllCandidates(cand)

(* ------------------------------------------------------------------ *)
(* Ordering within a category                                         *)
(* ------------------------------------------------------------------ *)

\* C33: when the candidates of a category are detected, no detail fetch and
\* no upsert of the category has been made and the snapshot holds the
\* committed rows of the listed ids; the candidate sets are those computed
\* from that snapshot for as long as the batches run; and when the Drop
\* Marker has run, every batch of the category has been fetched before.
C33_CategoryOrdering ==
  /\ (pc = "detect" \/ last_op.op = "detect") =>
       (fetched = {} /\ upserted = {})
  /\ last_op.op = "detect" =>
       /\ tx = db
       /\ db_snapshot = load_db_snapshot(db, AthleteIds(ranking_nodes))
  /\ pc \in {"fetch_batch", "process", "drop"} =>
       /\ cand = detect_candidates(ranking_nodes, db_snapshot, force_refresh_days, now)
       /\ Range(candidates_list) = AllCandidates(cand)
       /\ fetched \cup upserted \subseteq AllCandidates(cand)
  /\ CategoryRunDone => fetched = AllCandidates(cand)

\* two batches have been committed and the Drop Marker has run; the snapshot
\* still shows the rows as they were before the batches, the table does not
C33_Witness ==
  /\ CategoryRunDone
  /\ Len(candidates_list) > BATCH_SIZE
  /\ upserted = AllCandidates(cand)
  /\ \E a \in DOMAIN db_snapshot :
       a \in DOMAIN db /\ db[a].data_hash # db_snapshot[a].data_hash

(* ------------------------------------------------------------------ *)
(* Two runs upserting the same record at once                         *)
(* ------------------------------------------------------------------ *)

\* the connections of the two runs
Conns == {1, 2}

ConcReady == [pc |-> "ready", ret |-> FALSE, store |-> EmptyStore]

\* both runs are about to call upsert_athlete with the same detail record,
\* rank and hash
ConcCalls ==
  { [fn |-> "concurrent_upserts", data |-> MkDetail(a, n), rank |-> r,
     conns |-> [c \in Conns |-> ConcReady]] :
      a \in HarnessIds, n \in Names, r \in HarnessRanks }

InitConc ==
  /\ InitRun
  /\ call \in { k \in ConcCalls : k.data.name \in NamesOf(k.data.id) }
  /\ sync_fields = TRUE

\* the statement without the lock of the row: check and write as two steps
ConcLocked_never(c) == FALSE

\* the statement of connection c has to wait: INSERT ... ON CONFLICT DO UPDATE
\* locks the row of the key until the end of its transaction, written or not,
\* and under READ COMMITTED (the default of the connection) the statement of
\* the other transaction then works on the row as committed
ConcLocked(c) == \E o \in Conns \ {c} : call.conns[o].pc = "executed"

\* connection c executes the statement of upsert_athlete
ConcExecute(c) ==
  /\ call.conns[c].pc = "ready"
  /\ ~ConcLocked(c)
  /\ LET data_hash == canonical_hash(canonicalize_athlete(call.data))
         r == upsert_athlete(db, call.data, call.rank, GenderNameOf(call.data.id),
                             data_hash, FALSE, now)
     IN call' = [call EXCEPT !.conns[c] =
                   [pc |-> "executed", ret |-> r.ret, store |-> r.store]]
  /\ last_op' = [op |-> "conc_execute", conn |-> c]
  /\ pre_tx' = tx
  /\ UNCHANGED << db, tx, tx_aborted, now, jumps, runs, other_writes, faults,
                  runVars, prev_op, stmts, sync_fields >>

\* conn.commit() of the batch of connection c
ConcCommit(c) ==
  /\ call.conns[c].pc = "executed"
  /\ db' = call.conns[c].store
  /\ tx' = call.conns[c].store
  /\ call' = [call EXCEPT !.conns[c].pc = "committed"]
  /\ last_op' = [op |-> "conc_commit", conn |-> c]
  /\ pre_tx' = tx
  /\ UNCHANGED << tx_aborted, now, jumps, runs, other_writes, faults, runVars,
                  prev_op, stmts, sync_fields >>

\* the batch of connection c fails after the statement: conn.rollback()
ConcRollback(c) ==
  /\ call.conns[c].pc = "executed"
  /\ call' = [call EXCEPT !.conns[c].pc = "rolled_back"]
  /\ last_op' = [op |-> "conc_rollback", conn |-> c]
  /\ pre_tx' = tx
  /\ UNCHANGED << db, tx, tx_aborted, now, jumps, runs, other_writes, faults,
                  runVars, prev_op, stmts, sync_fields >>

\* statements of earlier runs make the table; then the two runs act in any
\* order, the clock moving or not
NextConc ==
  \/ /\ \A c \in Conns : call.conns[c].pc = "ready"
     /\ stmts < MaxSeeds
     /\ \E wa_id \in HarnessIds : \E name \in NamesOf(wa_id) : \E rank \in HarnessRanks :
          StmtUpsert(wa_id, name, rank, 0)
  \/ AdvanceClock
  \/ \E c \in Conns : ConcExecute(c)
  \/ \E c \in Conns : ConcCommit(c)
  \/ \E c \in Conns : ConcRollback(c)

SpecConc == InitConc /\ [][NextConc]_vars

\* the upsert of connection c reported a write and was committed
ConcChanged(c) == call.conns[c].pc = "committed" /\ call.conns[c].ret

\* C34: of two runs that upsert the same record, rank and hash at once, at
\* most one reports a write and commits it; when both have committed, the
\* upsert of the other returned False; and once one has committed, the table
\* has the row of the id with that hash and rank.
C34_ConcurrentIdempotence ==
  /\ ~(ConcChanged(1) /\ ConcChanged(2))
  /\ (\E c \in Conns : call.conns[c].pc = "committed") =>
       /\ call.data.id \in DOMAIN db
       /\ db[call.data.id].data_hash = canonical_hash(canonicalize_athlete(call.data))
       /\ db[call.data.id].marathon_rank = call.rank

\* both runs have committed, the record was new to a table that held another
\* row, and exactly one of the two upserts reported the write
C34_Witness ==
  /\ \A c \in Conns : call.conns[c].pc = "committed"
  /\ \E c \in Conns : call.conns[c].ret
  /\ \E c \in Conns : ~call.conns[c].ret
  /\ Cardinality(DOMAIN db) = 2

(* ------------------------------------------------------------------ *)
(* enrich_athletes and detect_changes of sync_athletes_from_rankings.py *)
(* ------------------------------------------------------------------ *)

\* the limit of profile fetches of one call (50 in the script)
MAX_ENRICHMENTS_PER_RUN == 2

\* the scraped athletes of a call, in the order of the list
EnrichIds == << "m1", "m2", "m3" >>

\* a.get('rank', 999), the sort key of the batching; NULL is a dict without rank
EnrichKey(athlete) == IF athlete.rank = NULL THEN 999 ELSE athlete.rank

\* the quick scan of enrich_athletes: the athlete needs enrichment
needs_enrichment(athlete, existing_athletes, force_update) ==
  \/ force_update
  \/ athlete.world_athletics_id \notin DOMAIN existing_athletes
  \/ existing_athletes[athlete.world_athletics_id].world_athletics_marathon_ranking_score
       # athlete.world_athletics_marathon_ranking_score

\* the ids of the first n athletes of s sorted by rank (list.sort is stable)
BestRanked(s, n) ==
  { s[k].world_athletics_id :
      k \in { k \in DOMAIN s :
                Cardinality({ j \in DOMAIN s :
                                \/ EnrichKey(s[j]) < EnrichKey(s[k])
                                \/ EnrichKey(s[j]) = EnrichKey(s[k]) /\ j < k }) < n } }

\* enrich_athletes: for every athlete of the list where its data come from
\* ("profile" is a call of fetch_athlete_profile), and the ids fetched, in
\* order; a score of NULL is None
enrich_athletes(athletes, existing_athletes, force_update) ==
  LET Needs(athlete) == needs_enrichment(athlete, existing_athletes, force_update)
      athletes_needing_enrichment == SelectSeq(athletes, Needs)
      batching == ~force_update
                    /\ Len(athletes_needing_enrichment) > MAX_ENRICHMENTS_PER_RUN
      athletes_to_enrich_ids ==
        BestRanked(athletes_needing_enrichment, MAX_ENRICHMENTS_PER_RUN)
      From(athlete) ==
        LET wa_id == athlete.world_athletics_id
            existing == wa_id \in DOMAIN existing_athletes
            current_score == athlete.world_athletics_marathon_ranking_score
        IN IF ~athlete.profile_url THEN "scrape"
           ELSE IF /\ ~force_update
                   /\ existing
                   /\ existing_athletes[wa_id].world_athletics_marathon_ranking_score # NULL
                   /\ current_score # NULL
                   /\ existing_athletes[wa_id].world_athletics_marathon_ranking_score
                        = current_score
             THEN "cached"
           ELSE IF batching /\ wa_id \notin athletes_to_enrich_ids /\ existing
             THEN "deferred"
           ELSE "profile"
      enriched == [k \in DOMAIN athletes |->
                     [world_athletics_id |-> athletes[k].world_athletics_id,
                      from |-> From(athletes[k])]]
      Fetched(e) == e.from = "profile"
      fetched_rows == SelectSeq(enriched, Fetched)
  IN [ enriched |-> enriched,
       fetched |-> [k \in DOMAIN fetched_rows |-> fetched_rows[k].world_athletics_id],
       batching |-> batching ]

\* an athlete dict of the script as the scrape and the enrichment make it
MkScraped(wa_id, name, rank, marathon_rank, score) ==
  [ world_athletics_id |-> wa_id, name |-> name, country |-> None,
    gender |-> GenderNameOf(wa_id), personal_best |-> None, season_best |-> None,
    marathon_rank |-> marathon_rank, road_running_rank |-> None,
    overall_rank |-> None, age |-> None, dob |-> None, date_of_birth |-> None,
    rank |-> rank, world_athletics_marathon_ranking_score |-> score ]

EnrichRanks == {1, 2, NULL}
EnrichScores == {1, 2}

\* calls of enrich_athletes: three scraped athletes, each with any rank, score
\* and stored row; the last one may lack a score or a profile url
EnrichCalls ==
  { [fn |-> "enrich_athletes", done |-> FALSE, ret |-> << >>,
     athletes |-> [k \in DOMAIN EnrichIds |->
                     [world_athletics_id |-> EnrichIds[k], rank |-> rk[k],
                      world_athletics_marathon_ranking_score |-> sc[k],
                      profile_url |-> (k < Len(EnrichIds) \/ url)]],
     existing_athletes |-> [w \in ex |-> [world_athletics_marathon_ranking_score |-> es[w]]],
     force_update |-> force_update] :
      rk \in [DOMAIN EnrichIds -> EnrichRanks],
      sc \in { f \in [DOMAIN EnrichIds -> EnrichScores \cup {NULL}] :
                 \A k \in DOMAIN EnrichIds : k < Len(EnrichIds) => f[k] # NULL },
      url \in BOOLEAN,
      ex \in SUBSET Range(EnrichIds),
      es \in [Range(EnrichIds) -> {1, NULL}],
      force_update \in BOOLEAN }

\* calls of detect_changes: one scraped athlete and the stored row of its id,
\* written from the dict "stored" by an earlier invocation
ChangesCalls ==
  { [fn |-> "detect_changes", done |-> FALSE, ret |-> << >>,
     athlete |-> MkScraped(a, n1, r1, q1, s1),
     stored |-> MkScraped(a, n2, r2, q2, s2),
     force_update |-> force_update] :
      a \in HarnessIds, n1 \in Names, n2 \in Names,
      r1 \in HarnessRanks, r2 \in HarnessRanks,
      q1 \in HarnessRanks, q2 \in HarnessRanks,
      s1 \in EnrichScores, s2 \in EnrichScores,
      force_update \in BOOLEAN }

InitRankingsFn ==
  /\ InitRun
  /\ call \in EnrichCalls \cup ChangesCalls
  /\ sync_fields = TRUE

ApplyEnrich ==
  /\ call.fn = "enrich_athletes"
  /\ ~call.done
  /\ call' = [call EXCEPT !.done = TRUE,
                          !.ret = enrich_athletes(call.athletes, call.existing_athletes,
                                                  call.force_update)]
  /\ UNCHANGED << db, tx, tx_aborted, now, jumps, runs, other_writes, faults,
                  runVars, last_op, pre_tx, prev_op, stmts, sync_fields >>

ApplyChanges ==
  /\ call.fn = "detect_changes"
  /\ ~call.done
  /\ call' = [call EXCEPT
                !.done = TRUE,
                !.ret = detect_changes(
                          << call.athlete >>,
                          [w \in {call.stored.world_athletics_id} |->
                             [data_hash |-> compute_hash(call.stored)]],
                          call.force_update)]
  /\ UNCHANGED << db, tx, tx_aborted, now, jumps, runs, other_writes, faults,
                  runVars, last_op, pre_tx, prev_op, stmts, sync_fields >>

NextRankingsFn == ApplyEnrich \/ ApplyChanges

SpecRankingsFn == InitRankingsFn /\ [][NextRankingsFn]_vars

EnrichDone == call.fn = "enrich_athletes" /\ call.done

\* the athletes of the call that need enrichment
EnrichNeeding ==
  LET Needs(athlete) ==
        needs_enrichment(athlete, call.existing_athletes, call.force_update)
  IN SelectSeq(call.athletes, Needs)

\* C35: without force_update a call of enrich_athletes fetches at most
\* MAX_ENRICHMENTS_PER_RUN profiles, all of them of the best-ranked athletes
\* among those needing enrichment; no other athlete is fetched, stored or not.
C35_EnrichmentCap ==
  (EnrichDone /\ ~call.force_update) =>
    /\ Len(call.ret.fetched) <= MAX_ENRICHMENTS_PER_RUN
    /\ Range(call.ret.fetched)
         \subseteq BestRanked(EnrichNeeding, MAX_ENRICHMENTS_PER_RUN)

ChangesDone == call.fn = "detect_changes" /\ call.done

\* the dict of the call and the dict the row was written from differ in
\* nothing but rank fields and the ranking score
OnlyRankDiffers ==
  /\ call.athlete.name = call.stored.name
  /\ \/ call.athlete.rank # call.stored.rank
     \/ call.athlete.marathon_rank # call.stored.marathon_rank
     \/ call.athlete.world_athletics_marathon_ranking_score
          # call.stored.world_athletics_marathon_ranking_score

\* C36: two athlete dicts that differ only in rank fields or in the ranking
\* score have the same compute_hash, and detect_changes puts the athlete of
\* an existing row whose only difference is its rank among the unchanged.
C36_HashIgnoresRank ==
  (ChangesDone /\ ~call.force_update /\ OnlyRankDiffers) =>
    /\ compute_hash(call.athlete) = compute_hash(call.stored)
    /\ call.ret.unchanged_athletes = << call.athlete >>

(* ------------------------------------------------------------------ *)
(* Stale records that the source returns unchanged                    *)
(* ------------------------------------------------------------------ *)

\* the row was fetched more than force_refresh_days whole days before now
StaleRow(row) ==
  /\ row.last_fetched_at # NULL
  /\ age_days(now, row.last_fetched_at) > force_refresh_days

\* the row the run found for a has the rank of the list and the hash of the
\* detail record the source returns
SnapshotAsSource(a) ==
  /\ db_snapshot[a].marathon_rank = RankMapGet(ranking_nodes, a)
  /\ db_snapshot[a].data_hash
       = canonical_hash(canonicalize_athlete(MkDetail(a, call.names[a])))

TrackedRow(row, gender) ==
  /\ row.gender = gender
  /\ row.ranking_source = "world_marathon"
  /\ row.last_seen_at # NULL
  /\ row.marathon_rank # NULL
  /\ row.marathon_rank <= TOP_N

\* C38: when the ranking fetch of a category returns an empty list the run
\* goes from the detection straight to the Drop Marker with no candidate and
\* no detail fetch, and the Drop Marker clears last_seen_at on every record
\* of the category whose marker is set, whose ranking_source is
\* 'world_marathon' and whose rank is at most 100, and commits.
C38_EmptyListDropsAll ==
  /\ (ranking_nodes = << >> /\ pc \in {"fetch_batch", "process", "drop"}) =>
       /\ pc = "drop"
       /\ AllCandidates(cand) = {}
       /\ fetched = {}
       /\ tx = db
  /\ (DropActed /\ last_op.ids = {}) =>
       /\ pc # "idle"
       /\ fetched = {}
       /\ tx = db
       /\ \A a \in DOMAIN pre_tx :
            TrackedRow(pre_tx[a], last_op.gender) =>
              a \in DOMAIN db /\ db[a].last_seen_at = NULL

\* the list of the men came back empty and the Drop Marker cleared the marker
\* of a record that an earlier run had listed
C38_Witness ==
  /\ DropActed
  /\ last_op.ids = {}
  /\ last_op.gender = "men"
  /\ last_op.count > 0
  /\ \E a \in DOMAIN pre_tx :
       TrackedRow(pre_tx[a], "men") /\ db[a].last_seen_at = NULL

(* ------------------------------------------------------------------ *)
(* The counters and the committed table                               *)
(* ------------------------------------------------------------------ *)

\* the ids whose row in the committed table is new or has another hash or
\* rank than the row the category run found: an id is upserted at most once
\* in a category run, so these are the committed writes of the upserts
CommittedWrites ==
  { a \in upserted \cap DOMAIN db :
      \/ a \notin DOMAIN db_snapshot
      \/ db[a].data_hash # db_snapshot[a].data_hash
      \/ db[a].marathon_rank # db_snapshot[a].marathon_rank }

\* C39: new_athletes + updated_athletes is the number of upsert writes that
\* changed a row and were committed: after the category of the men (the list
\* of the women is empty and adds nothing), and at the end of the first run,
\* which started from an empty table.
C39_StatsAgree ==
  /\ (DropActed /\ last_op.gender = "men" /\ pc # "idle") =>
       stats.new_athletes + stats.updated_athletes = Cardinality(CommittedWrites)
  /\ (last_op.op = "finish" /\ ~dry_run /\ runs = 1 /\ other_writes = 0 /\ stmts = 0) =>
       stats.new_athletes + stats.updated_athletes = Cardinality(DOMAIN db)

====
